---- MODULE Spec2Model ----
(***************************************************************************)
(* The control core of nym-vpn-client: the tunnel state machine's control  *)
(* loop, the legacy run/run_and_listen entry points, the mixnet connector, *)
(* the mixnet tunnel services and the gateway authenticator client.        *)
(***************************************************************************)
EXTENDS Integers, Sequences, FiniteSets, TLC

(***************************************************************************)
(* Bounds of the model.                                                    *)
(***************************************************************************)
\* commands the callers put on the command channel
MaxCommands == 3
\* runtime faults of a connected tunnel
MaxFaults == 1
\* connect attempts (select_gateways, connect_mixnet) of one connecting phase
MaxAttempts == 2
\* calls made on one authenticator client
MaxCalls == 2
\* longest wait of one transmission for its response, in seconds
MaxWait == 12
\* largest remaining bandwidth the gateway reports
MaxBandwidth == 2
\* source errors each variant of Error is tried with
MaxSources == 6
\* words of the longest mnemonic
MaxWords == 2
\* calls made on one OnDiskMnemonicStorage
MaxStoreCalls == 3
\* calls of stopVPN after one startVPN
MaxStops == 2
\* calls of startVPN after the first one
MaxStarts == 2
\* calls of startVPN and stopVPN on the state machine FFI
MaxPlatformCalls == 3
\* events one tunnel state machine emits
MaxEvents == 2
\* tunnels started through Tunnel::start
MaxTunnels == 3

VARIABLES
    \* ---- tunnel state machine (tunnel_state_machine/mod.rs) ----
    current_state,      \* TunnelState of current_state_handler
    tunnel_settings,    \* shared_state.tunnel_settings
    applied,            \* resources the handlers of shared_state hold applied
    command_rx,         \* commands queued on the command channel
    command_tx_open,    \* some command sender is still alive
    shutdown_token,     \* TRUE once the shutdown token is cancelled
    event_rx_open,      \* the event receiver is still alive
    loop_pc,            \* position of run(): "handle", "match", "stop", "done"
    next_state,         \* NextTunnelState returned by the last handle_event
    returned,           \* every NextTunnelState the handlers returned, in order
    sent,               \* payload of every event_sender.send call, in order
    route_stop_calls,   \* calls of route_handler.stop()
    n_commands,         \* commands submitted so far
    n_faults,           \* runtime faults so far
    \* ---- legacy entry points (nym-vpn-lib/src/lib.rs) ----
    vpn,                \* one call of SpecificVpn::run or run_and_listen
    \* ---- mixnet connector (tunnel_state_machine/tunnel/mod.rs) ----
    mx,                 \* connect attempts: select_gateways, then connect_mixnet
    \* ---- authenticator client (nym-wg-gateway-client/src/lib.rs) ----
    wg,                 \* calls on one WgGatewayClient and its light client
    \* ---- Error::error_state_reason (tunnel_state_machine/mod.rs) ----
    failure,            \* one failed step of a handler and its classification
    \* ---- OnDiskMnemonicStorage (nym-vpn-store/src/mnemonic/on_disk.rs) ----
    storage,            \* the file at self.path, its directory, and the calls made
    \* ---- legacy FFI layer (nym-vpn-lib/src/platform/mod.rs) ----
    ffi,                \* stopVPN, the tasks run_vpn spawned, and the VPN task
    \* ---- gateway selection (tunnel/gateway_selector, design 4.2) ----
    selector,           \* one call of gateway_selector::select_gateways
    \* ---- state machine FFI (crates/nym-vpn-lib/src/platform/mod.rs) ----
    platform,           \* STATE_MACHINE_HANDLE, the calling threads, the spawned tasks
    \* ---- nym-wg-go Tunnel (nym-wg-go/src/wireguard_go.rs) ----
    wggo                \* the tunnels started and the calls of wgTurnOff

tsm_vars == <<current_state, tunnel_settings, applied, command_rx, command_tx_open,
              shutdown_token, event_rx_open, loop_pc, next_state, returned,
              sent, route_stop_calls, n_commands, n_faults>>

\* the components other than the tunnel state machine
\* the components added to the first four
rest_vars == <<failure, storage, ffi, selector, platform, wggo>>

not_tsm == <<vpn, mx, wg, rest_vars>>

vars == <<tsm_vars, vpn, mx, wg, rest_vars>>

(***************************************************************************)
(* Data of the tunnel state machine.                                       *)
(***************************************************************************)
ErrorStateReason ==
    {"Firewall", "Routing", "Dns", "TunDevice", "EstablishMixnetConnection", "TunnelDown"}

ActionAfterDisconnect ==
    {<<"Nothing">>, <<"Reconnect">>} \cup {<<"Error", r>> : r \in ErrorStateReason}

TunnelState ==
    {<<"Disconnected">>, <<"Connecting">>, <<"Connected">>}
        \cup {<<"Disconnecting", a>> : a \in ActionAfterDisconnect}
        \cup {<<"Error", r>> : r \in ErrorStateReason}

\* tunnel settings a caller may install; 0 is the setting at construction
Settings == {0, 1}

TunnelCommand ==
    {<<"Connect">>, <<"Disconnect">>} \cup {<<"SetTunnelSettings", s>> : s \in Settings}

Resources == {"route", "dns", "firewall"}

\* the variants of the state machine's Error
ErrorVariants ==
    {"CreateRouteHandler", "CreateDnsHandler", "CreateFirewallHandler", "CreateTunDevice",
     "GetTunDeviceName", "SetTunDeviceIpv6Addr", "AddRoutes", "SetDns",
     "ConnectMixnetClient", "ConnectMixnetTunnel"}

\* the source errors a variant may wrap
Sources == 1..MaxSources

\* the values of the state machine's Error: a variant and the #[source] it wraps
Error == ErrorVariants \X Sources

\* an error_state_reason that takes a failure to set dns for a routing failure
error_state_reason_SetDnsIsRouting(e) ==
    CASE e[1] \in {"CreateRouteHandler", "AddRoutes", "SetDns"} -> "Routing"
      [] e[1] = "CreateDnsHandler" -> "Dns"
      [] e[1] = "CreateFirewallHandler" -> "Firewall"
      [] e[1] \in {"CreateTunDevice", "GetTunDeviceName", "SetTunDeviceIpv6Addr"} -> "TunDevice"
      [] e[1] \in {"ConnectMixnetTunnel", "ConnectMixnetClient"} -> "EstablishMixnetConnection"

\* Error::error_state_reason: a match on the variant, every pattern with `_`
\* for the wrapped source
error_state_reason(e) ==
    CASE e[1] \in {"CreateRouteHandler", "AddRoutes"} -> "Routing"
      [] e[1] \in {"CreateDnsHandler", "SetDns"} -> "Dns"
      [] e[1] = "CreateFirewallHandler" -> "Firewall"
      [] e[1] \in {"CreateTunDevice", "GetTunDeviceName", "SetTunDeviceIpv6Addr"} -> "TunDevice"
      [] e[1] \in {"ConnectMixnetTunnel", "ConnectMixnetClient"} -> "EstablishMixnetConnection"

\* the errors a connect attempt of the state machine can end with
ConnectErrors == {e \in Error : e[1] \in {"AddRoutes", "ConnectMixnetClient"}}

\* what a connect attempt that failed midway may still hold applied
PartialSetups == {{"firewall"}, {"firewall", "route"}}

NewState(s) == <<"NewState", s>>
SameState == <<"SameState">>
Finished == <<"Finished">>

(***************************************************************************)
(* Init: TunnelStateMachine::spawn                                         *)
(***************************************************************************)
TsmInit ==
    /\ current_state = <<"Disconnected">>
    /\ tunnel_settings = 0
    /\ applied = {}
    /\ command_rx = <<>>
    /\ command_tx_open = TRUE
    /\ shutdown_token = FALSE
    /\ event_rx_open = TRUE
    /\ loop_pc = "handle"
    /\ next_state = <<"None">>
    /\ returned = <<>>
    /\ sent = <<>>
    /\ route_stop_calls = 0
    /\ n_commands = 0
    /\ n_faults = 0

(***************************************************************************)
(* The callers: command senders, the owner of the shutdown token, the      *)
(* event listener.                                                         *)
(***************************************************************************)
SendCommand ==
    /\ command_tx_open
    /\ n_commands < MaxCommands
    /\ \E c \in TunnelCommand : command_rx' = Append(command_rx, c)
    /\ n_commands' = n_commands + 1
    /\ UNCHANGED <<current_state, tunnel_settings, applied, command_tx_open, shutdown_token,
                   event_rx_open, loop_pc, next_state, returned, sent,
                   route_stop_calls, n_faults, not_tsm>>

DropCommandSenders ==
    /\ command_tx_open
    /\ command_tx_open' = FALSE
    /\ UNCHANGED <<current_state, tunnel_settings, applied, command_rx, shutdown_token,
                   event_rx_open, loop_pc, next_state, returned, sent,
                   route_stop_calls, n_commands, n_faults, not_tsm>>

CancelShutdownToken ==
    /\ ~shutdown_token
    /\ shutdown_token' = TRUE
    /\ UNCHANGED <<current_state, tunnel_settings, applied, command_rx, command_tx_open,
                   event_rx_open, loop_pc, next_state, returned, sent,
                   route_stop_calls, n_commands, n_faults, not_tsm>>

DropEventReceiver ==
    /\ event_rx_open
    /\ event_rx_open' = FALSE
    /\ UNCHANGED <<current_state, tunnel_settings, applied, command_rx, command_tx_open,
                   shutdown_token, loop_pc, next_state, returned, sent,
                   route_stop_calls, n_commands, n_faults, not_tsm>>

(***************************************************************************)
(* handle_event: one call of the current state handler.  Return(n) is the  *)
(* handler returning n to run().                                           *)
(***************************************************************************)
Return(n) ==
    /\ next_state' = n
    /\ returned' = Append(returned, n)
    /\ loop_pc' = "match"

\* a select that does not watch the shutdown token
ShutdownBranchReady_Never == FALSE

\* the branch of the select that fires when the shutdown token is cancelled
ShutdownBranchReady == shutdown_token

\* the branch of the select that fires when command_rx.recv() yields Some(command)
CommandBranchReady == command_rx # <<>>

\* a receiver that hands out the newest command of the queue
recv_Newest(queue) ==
    [command |-> queue[Len(queue)], rest |-> SubSeq(queue, 1, Len(queue) - 1)]

\* command_rx.recv() on a queue that holds a command: the oldest command,
\* and the queue without it
recv(queue) == [command |-> Head(queue), rest |-> Tail(queue)]

\* `Some(command) = command_rx.recv()` is disabled once recv() yields None:
\* every sender is dropped and the queue is empty
CommandBranchDisabled == ~command_tx_open /\ command_rx = <<>>

\* `_ = shutdown_token.cancelled()` accepts whatever its future yields, so
\* the select never disables it; until the token is cancelled it is pending
ShutdownBranchDisabled == FALSE

\* the `else` branch of the select runs only when every other branch is
\* disabled
ElseBranchReady == ShutdownBranchDisabled /\ CommandBranchDisabled

\* DisconnectedState::handle_event, branch `_ = shutdown_token.cancelled()`
\* and branch `else`, both returning Finished
DisconnectedShutdown ==
    /\ loop_pc = "handle"
    /\ current_state = <<"Disconnected">>
    /\ ShutdownBranchReady \/ ElseBranchReady
    /\ Return(Finished)
    /\ UNCHANGED <<current_state, tunnel_settings, applied, command_rx, command_tx_open,
                   shutdown_token, event_rx_open, sent, route_stop_calls, n_commands, n_faults, not_tsm>>

\* a DisconnectedState that takes Connect straight to Connected
DisconnectedOnCommand_ConnectsAtOnce(command) ==
    CASE command = <<"Connect">> -> NewState(<<"Connected">>)
      [] OTHER -> SameState

\* a DisconnectedState that answers Disconnect by entering Disconnected anew
DisconnectedOnCommand_DisconnectReenters(command) ==
    CASE command = <<"Connect">> -> NewState(<<"Connecting">>)
      [] command = <<"Disconnect">> -> NewState(<<"Disconnected">>)
      [] OTHER -> SameState

\* the result of DisconnectedState for a received command
DisconnectedOnCommand(command) ==
    CASE command = <<"Connect">> -> NewState(<<"Connecting">>)
      [] command = <<"Disconnect">> -> SameState
      [] OTHER -> SameState

\* a DisconnectedState that drops the settings of SetTunnelSettings
DisconnectedSettings_Kept(settings, command) == settings

\* shared_state.tunnel_settings after DisconnectedState has taken a command:
\* SetTunnelSettings(tunnel_settings) assigns it, Connect and Disconnect do not
DisconnectedSettings(settings, command) ==
    IF command[1] = "SetTunnelSettings" THEN command[2] ELSE settings

\* DisconnectedState::handle_event, branch `Some(command) = command_rx.recv()`
DisconnectedCommand ==
    /\ loop_pc = "handle"
    /\ current_state = <<"Disconnected">>
    /\ CommandBranchReady
    /\ LET command == recv(command_rx).command IN
        /\ command_rx' = recv(command_rx).rest
        /\ tunnel_settings' = DisconnectedSettings(tunnel_settings, command)
        /\ Return(DisconnectedOnCommand(command))
    /\ UNCHANGED <<current_state, applied, command_tx_open, shutdown_token, event_rx_open,
                   sent, route_stop_calls, n_commands, n_faults, not_tsm>>

(***************************************************************************)
(* The handlers of the states other than Disconnected, after the           *)
(* transition table of the design (section 4.1).  A command the table does *)
(* not list for a state is consumed and leaves the state as it is;         *)
(* Disconnecting has no command row and waits for its cleanup only.        *)
(***************************************************************************)
UNCHANGED_Callers ==
    UNCHANGED <<command_tx_open, shutdown_token, event_rx_open, sent, route_stop_calls,
                n_commands, not_tsm>>

\* any state, shutdown signal: Finished after best-effort resource release
ShutdownOf(tag) ==
    /\ loop_pc = "handle"
    /\ current_state[1] = tag
    /\ ShutdownBranchReady
    /\ applied' = {}
    /\ Return(Finished)
    /\ UNCHANGED <<current_state, tunnel_settings, command_rx, n_faults>>
    /\ UNCHANGED_Callers

\* the result of a state that has a Disconnect row for a received command
OnCommand(command) ==
    IF command = <<"Disconnect">> THEN NewState(<<"Disconnecting", <<"Nothing">>>>)
    ELSE SameState

CommandOf(tag) ==
    /\ loop_pc = "handle"
    /\ current_state[1] = tag
    /\ CommandBranchReady
    /\ command_rx' = recv(command_rx).rest
    /\ Return(OnCommand(recv(command_rx).command))
    /\ UNCHANGED <<current_state, tunnel_settings, applied, n_faults>>
    /\ UNCHANGED_Callers

ConnectingShutdown == ShutdownOf("Connecting")

ConnectingCommand == CommandOf("Connecting")

\* Connecting, success: Connected
ConnectingSuccess ==
    /\ loop_pc = "handle"
    /\ current_state = <<"Connecting">>
    /\ applied' = Resources
    /\ Return(NewState(<<"Connected">>))
    /\ UNCHANGED <<current_state, tunnel_settings, command_rx, n_faults>>
    /\ UNCHANGED_Callers

\* Connecting, failure: Error(reason), what was applied being reset
ConnectingFailure ==
    /\ loop_pc = "handle"
    /\ current_state = <<"Connecting">>
    /\ \E e \in ConnectErrors :
          /\ applied' = {}
          /\ Return(NewState(<<"Error", error_state_reason(e)>>))
    /\ UNCHANGED <<current_state, tunnel_settings, command_rx, n_faults>>
    /\ UNCHANGED_Callers

\* Connecting, failure: Disconnecting{Error(reason)}, the cleanup still to run
ConnectingFailureDisconnect ==
    /\ loop_pc = "handle"
    /\ current_state = <<"Connecting">>
    /\ \E e \in ConnectErrors, held \in PartialSetups :
          /\ applied' = held
          /\ Return(NewState(<<"Disconnecting", <<"Error", error_state_reason(e)>>>>))
    /\ UNCHANGED <<current_state, tunnel_settings, command_rx, n_faults>>
    /\ UNCHANGED_Callers

ConnectedShutdown == ShutdownOf("Connected")

ConnectedCommand == CommandOf("Connected")

\* Connected, runtime fault: Disconnecting{Reconnect}
ConnectedFaultReconnect ==
    /\ loop_pc = "handle"
    /\ current_state = <<"Connected">>
    /\ n_faults < MaxFaults
    /\ n_faults' = n_faults + 1
    /\ Return(NewState(<<"Disconnecting", <<"Reconnect">>>>))
    /\ UNCHANGED <<current_state, tunnel_settings, applied, command_rx>>
    /\ UNCHANGED_Callers

\* Connected, runtime fault: Error
ConnectedFaultError ==
    /\ loop_pc = "handle"
    /\ current_state = <<"Connected">>
    /\ n_faults < MaxFaults
    /\ n_faults' = n_faults + 1
    /\ Return(NewState(<<"Error", "TunnelDown">>))
    /\ UNCHANGED <<current_state, tunnel_settings, applied, command_rx>>
    /\ UNCHANGED_Callers

DisconnectingShutdown == ShutdownOf("Disconnecting")

\* a Disconnecting that always ends in Disconnected
AfterDisconnect_AlwaysDisconnected(after_disconnect) == <<"Disconnected">>

\* a Disconnecting that starts a new connect attempt after a failed one
AfterDisconnect_RetriesAfterError(after_disconnect) ==
    IF after_disconnect = <<"Nothing">> THEN <<"Disconnected">> ELSE <<"Connecting">>

\* the state that follows Disconnecting{after_disconnect} when cleanup completes
AfterDisconnect(after_disconnect) ==
    CASE after_disconnect = <<"Nothing">> -> <<"Disconnected">>
      [] after_disconnect = <<"Reconnect">> -> <<"Connecting">>
      [] OTHER -> <<"Error", after_disconnect[2]>>

\* Disconnecting, cleanup complete
DisconnectingComplete ==
    /\ loop_pc = "handle"
    /\ current_state[1] = "Disconnecting"
    /\ applied' = {}
    /\ Return(NewState(AfterDisconnect(current_state[2])))
    /\ UNCHANGED <<current_state, tunnel_settings, command_rx, n_faults>>
    /\ UNCHANGED_Callers

ErrorShutdown == ShutdownOf("Error")

ErrorCommand == CommandOf("Error")

(***************************************************************************)
(* run(): the match on the handler's result, and the exit of the loop.     *)
(***************************************************************************)
\* the state run() installs for a handler result
InstalledState(n) == IF n[1] = "NewState" THEN n[2] ELSE current_state

\* a run() that also reports a handler that stayed in its state
EventsFor_AlsoSameState(n) == IF n[1] = "Finished" THEN <<>> ELSE <<InstalledState(n)>>

\* the events run() sends for a handler result
EventsFor(n) == IF n[1] = "NewState" THEN <<n[2]>> ELSE <<>>

\* a run() that leaves the loop without reaching route_handler.stop()
AfterMatch_SkipStop(n) == IF n[1] = "Finished" THEN "done" ELSE "handle"

\* a run() that also leaves the loop after installing a new state
AfterMatch_BreakOnNewState(n) == IF n[1] = "SameState" THEN "handle" ELSE "stop"

\* where run() goes after the match
AfterMatch(n) == IF n[1] = "Finished" THEN "stop" ELSE "handle"

\* a run() that leaves the loop when event_sender.send returns an error
OnSendResult_StopOnError(delivered, pc) == IF delivered THEN pc ELSE "stop"

\* `let _ = self.event_sender.send(..)`: the result of the send, an error
\* when the receiver is dropped, is discarded and run() goes on to pc
OnSendResult(delivered, pc) == pc

\* The event channel is unbounded: send returns at once, whatever the
\* receiver has taken so far, so RunMatch has no guard on the events pending.
RunMatch ==
    /\ loop_pc = "match"
    /\ current_state' = InstalledState(next_state)
    /\ sent' = sent \o EventsFor(next_state)
    /\ loop_pc' = IF EventsFor(next_state) = <<>>
                     THEN AfterMatch(next_state)
                     ELSE OnSendResult(event_rx_open, AfterMatch(next_state))
    /\ UNCHANGED <<tunnel_settings, applied, command_rx, command_tx_open, shutdown_token,
                   event_rx_open, next_state, returned, route_stop_calls,
                   n_commands, n_faults, not_tsm>>

\* run() after the loop: shared_state.route_handler.stop()
RunStop ==
    /\ loop_pc = "stop"
    /\ route_stop_calls' = route_stop_calls + 1
    /\ loop_pc' = "done"
    /\ UNCHANGED <<current_state, tunnel_settings, applied, command_rx, command_tx_open,
                   shutdown_token, event_rx_open, next_state, returned, sent,
                   n_commands, n_faults, not_tsm>>

(***************************************************************************)
(* SpecificVpn::run and SpecificVpn::run_and_listen (nym-vpn-lib/src/      *)
(* lib.rs).  vpn.pc is the position of the call.  setup_tunnel of a mixnet  *)
(* tunnel is followed into NymVpn<MixnetVpn>::setup_tunnel_services and    *)
(* setup_post_mixnet.                                                      *)
(***************************************************************************)
EntryPoints == {"run", "run_and_listen"}

\* AllTunnelsSetup
TunnelKinds == {"Mix", "Wg"}

VpnIdle ==
    [pc |-> "idle", entry |-> "run", tunnel |-> "Mix", route_manager |-> "none",
     routes_applied |-> FALSE, dns_applied |-> FALSE,
     apply_calls |-> [dns |-> 0, firewall |-> 0],
     reset_calls |-> [dns |-> 0, firewall |-> 0],
     reset_failed |-> {}, setup_failed |-> FALSE, mixnet_client |-> "none",
     services |-> "none", failed_at |-> "none", waited |-> "none", result |-> "none"]

VpnCall(entry, tunnel) ==
    [VpnIdle EXCEPT !.pc = "setup_route_manager", !.entry = entry, !.tunnel = tunnel]

\* setup_route_manager().await?
SetupRouteManager ==
    /\ vpn.pc = "setup_route_manager"
    /\ \/ vpn' = [vpn EXCEPT !.pc = "init_firewall_dns", !.route_manager = "alive"]
       \/ vpn' = [vpn EXCEPT !.pc = "returned", !.result = "Err(RouteManager)"]
    /\ UNCHANGED <<tsm_vars, mx, wg, rest_vars>>

\* init_firewall_dns(..).await?; on an error the route manager goes out of scope
InitFirewallDns ==
    /\ vpn.pc = "init_firewall_dns"
    /\ \/ vpn' = [vpn EXCEPT !.pc = "setup_tunnel"]
       \/ vpn' = [vpn EXCEPT !.pc = "returned", !.route_manager = "dropped",
                             !.result = "Err(FirewallDns)"]
    /\ UNCHANGED <<tsm_vars, mx, wg, rest_vars>>

\* setup_tunnel of a WireGuard tunnel: the stages before any resource is
\* touched (gateway lookup, mixnet client, registration with the gateways)
SetupWgConnect ==
    /\ vpn.pc = "setup_tunnel"
    /\ vpn.tunnel = "Wg"
    /\ \/ vpn' = [vpn EXCEPT !.pc = "wg_routes"]
       \/ vpn' = [vpn EXCEPT !.pc = "cleanup", !.setup_failed = TRUE]
    /\ UNCHANGED <<tsm_vars, mx, wg, rest_vars>>

\* setup_tunnel of a WireGuard tunnel: routes are added through the route
\* manager; a failing call may leave some of them behind
SetupWgRoutes ==
    /\ vpn.pc = "wg_routes"
    /\ \/ vpn' = [vpn EXCEPT !.pc = "wg_dns", !.routes_applied = TRUE]
       \/ \E left \in BOOLEAN :
            vpn' = [vpn EXCEPT !.pc = "cleanup", !.setup_failed = TRUE,
                               !.routes_applied = left]
    /\ UNCHANGED <<tsm_vars, mx, wg, rest_vars>>

\* setup_tunnel of a WireGuard tunnel: DNS is set through the DNS monitor; a
\* failing call may leave servers set
SetupWgDns ==
    /\ vpn.pc = "wg_dns"
    /\ \/ vpn' = [vpn EXCEPT !.pc = "running", !.dns_applied = TRUE,
                             !.apply_calls.dns = @ + 1]
       \/ \E left \in BOOLEAN :
            vpn' = [vpn EXCEPT !.pc = "cleanup", !.setup_failed = TRUE,
                               !.dns_applied = left, !.apply_calls.dns = @ + 1]
    /\ UNCHANGED <<tsm_vars, mx, wg, rest_vars>>

\* setup_tunnel of a mixnet tunnel: the mixnet client is set up and handed to
\* setup_tunnel_services
SetupMixnetClient ==
    /\ vpn.pc = "setup_tunnel"
    /\ vpn.tunnel = "Mix"
    /\ \/ vpn' = [vpn EXCEPT !.pc = "self_ping", !.mixnet_client = "connected"]
       \/ vpn' = [vpn EXCEPT !.pc = "cleanup", !.setup_failed = TRUE]
    /\ UNCHANGED <<tsm_vars, mx, wg, rest_vars>>

\* setup_tunnel_services returns Err(e): setup_tunnel fails with it
ServicesFailed(stage) ==
    [vpn EXCEPT !.pc = "cleanup", !.setup_failed = TRUE, !.services = "Err", !.failed_at = stage]

\* setup_tunnel_services: self_ping_and_wait(..).await?
SelfPing ==
    /\ vpn.pc = "self_ping"
    /\ \/ vpn' = [vpn EXCEPT !.pc = "ipr_connect"]
       \/ vpn' = ServicesFailed("self_ping")
    /\ UNCHANGED <<tsm_vars, mx, wg, rest_vars>>

\* setup_post_mixnet returns Err(err) from one of its `?`
PostMixnetFailed(stage) == [vpn EXCEPT !.pc = "post_mixnet_failed", !.failed_at = stage]

\* setup_post_mixnet: ipr_client.connect(..).await?
IprConnect ==
    /\ vpn.pc = "ipr_connect"
    /\ \/ vpn' = [vpn EXCEPT !.pc = "lookup_gateway_ip"]
       \/ vpn' = PostMixnetFailed("ipr_connect")
    /\ UNCHANGED <<tsm_vars, mx, wg, rest_vars>>

\* setup_post_mixnet: gateway_client.lookup_gateway_ip(..).await.map_err(..)?
LookupGatewayIp ==
    /\ vpn.pc = "lookup_gateway_ip"
    /\ \/ vpn' = [vpn EXCEPT !.pc = "setup_mixnet_routing"]
       \/ vpn' = PostMixnetFailed("lookup_gateway_ip")
    /\ UNCHANGED <<tsm_vars, mx, wg, rest_vars>>

\* setup_post_mixnet: routing::setup_mixnet_routing(route_manager, .., dns_monitor,
\* ..).await? adds the routes and sets DNS; it may fail at either, leaving
\* part of it behind; then the processor and the connection monitor start
SetupMixnetRouting ==
    /\ vpn.pc = "setup_mixnet_routing"
    /\ \/ vpn' = [vpn EXCEPT !.pc = "running", !.services = "Ok", !.routes_applied = TRUE,
                             !.dns_applied = TRUE, !.apply_calls.dns = @ + 1]
       \/ \E left \in BOOLEAN :
            vpn' = [PostMixnetFailed("setup_mixnet_routing") EXCEPT !.routes_applied = left]
       \/ \E left \in BOOLEAN :
            vpn' = [PostMixnetFailed("setup_mixnet_routing") EXCEPT
                        !.routes_applied = TRUE, !.dns_applied = left,
                        !.apply_calls.dns = @ + 1]
    /\ UNCHANGED <<tsm_vars, mx, wg, rest_vars>>

\* setup_tunnel_services on Err(err) of setup_post_mixnet:
\* mixnet_client.disconnect().await, then Err(err)
DisconnectAfterPostMixnet ==
    /\ vpn.pc = "post_mixnet_failed"
    /\ vpn' = [ServicesFailed(vpn.failed_at) EXCEPT !.mixnet_client = "disconnected"]
    /\ UNCHANGED <<tsm_vars, mx, wg, rest_vars>>

\* an error path that forgets the firewall
CleanupResets_DnsOnly == {"dns"}

\* the handlers the error path of run and run_and_listen resets
CleanupResets == {"dns", "firewall"}

\* Err(e) of setup_tunnel: the blocking task resets DNS and the firewall
\* policy, ignoring their errors, and drops the route manager; then Err(e)
\* is returned
CleanupAfterSetupFailure ==
    /\ vpn.pc = "cleanup"
    /\ \E failed \in SUBSET CleanupResets :
        vpn' = [vpn EXCEPT
            !.pc = "returned",
            !.reset_calls = [h \in {"dns", "firewall"} |->
                                IF h \in CleanupResets THEN @[h] + 1 ELSE @[h]],
            !.reset_failed = failed,
            !.dns_applied = IF "dns" \in CleanupResets \ failed THEN FALSE ELSE @,
            !.route_manager = "dropped",
            !.routes_applied = FALSE,
            !.result = "Err(Setup)"]
    /\ UNCHANGED <<tsm_vars, mx, wg, rest_vars>>

\* what the wait for the interrupt yields: run ignores it, run_and_listen
\* returns it
WaitResults(entry) == IF entry = "run" THEN {"Ok"} ELSE {"Ok", "Err(Task)"}

\* wait_and_handle_interrupt / wait_for_interrupt_and_signal: the interrupt
\* arrives, handle_interrupt drops the route manager, the tasks finish
WaitForInterrupt ==
    /\ vpn.pc = "running"
    /\ \E res \in WaitResults(vpn.entry) :
        vpn' = [vpn EXCEPT !.pc = "reset_dns", !.route_manager = "dropped",
                           !.routes_applied = FALSE, !.waited = res]
    /\ UNCHANGED <<tsm_vars, mx, wg, rest_vars>>

\* after the wait: dns_monitor.reset() in a blocking task, `.await??`
ResetDns ==
    /\ vpn.pc = "reset_dns"
    /\ \/ vpn' = [vpn EXCEPT !.reset_calls.dns = @ + 1, !.dns_applied = FALSE,
                             !.pc = IF vpn.tunnel = "Wg" THEN "reset_firewall" ELSE "returned",
                             !.result = IF vpn.tunnel = "Wg" THEN @ ELSE vpn.waited]
       \/ vpn' = [vpn EXCEPT !.reset_calls.dns = @ + 1, !.reset_failed = @ \cup {"dns"},
                             !.pc = "returned", !.result = "Err(DnsReset)"]
    /\ UNCHANGED <<tsm_vars, mx, wg, rest_vars>>

\* AllTunnelsSetup::Wg only: firewall.reset_policy().map_err(..)?
ResetFirewall ==
    /\ vpn.pc = "reset_firewall"
    /\ \/ vpn' = [vpn EXCEPT !.reset_calls.firewall = @ + 1, !.pc = "returned",
                             !.result = vpn.waited]
       \/ vpn' = [vpn EXCEPT !.reset_calls.firewall = @ + 1,
                             !.reset_failed = @ \cup {"firewall"},
                             !.pc = "returned", !.result = "Err(FirewallReset)"]
    /\ UNCHANGED <<tsm_vars, mx, wg, rest_vars>>

(***************************************************************************)
(* select_gateways and connect_mixnet (tunnel_state_machine/tunnel/mod.rs).*)
(* A connect attempt calls select_gateways and, with its gateways,         *)
(* connect_mixnet; both race their future against the cancel token with    *)
(* run_until_cancelled, which looks at the token first.                    *)
(***************************************************************************)
TunnelType == {"Mixnet", "Wireguard"}

\* the variants of tunnel::Error the two functions return
TunnelErrors ==
    {"CreateGatewayClient", "SelectGateways", "StartMixnetClientTimeout", "MixnetClient",
     "Cancelled"}

MxIdle ==
    [pc |-> "idle", fn |-> "none", tunnel_type |-> "Mixnet", cancel_token |-> FALSE,
     cancel_phase |-> "none", cancel_cause |-> "none", fut |-> "none", disable_poisson_rate |-> FALSE,
     disable_background_cover_traffic |-> FALSE, task_manager |-> "none",
     signal_calls |-> 0, signal_failed |-> FALSE, result |-> "none",
     log |-> {}, attempts |-> 0]

MxAttempt(tunnel_type, log, attempts) ==
    [MxIdle EXCEPT !.pc = "select_new", !.fn = "select_gateways",
                   !.tunnel_type = tunnel_type, !.log = log, !.attempts = attempts]

UNCHANGED_NotMx == UNCHANGED <<tsm_vars, vpn, wg, rest_vars>>

\* why the connecting state cancels the token of its connect attempt
CancelCauses == {"Disconnect", "shutdown"}

\* the connecting state cancels the token while the attempt is in progress
CancelToken ==
    /\ mx.pc \in {"select_new", "select_wait", "connect_new", "connect_wait", "tm_signal",
                  "tm_wait"}
    /\ ~mx.cancel_token
    /\ \E cause \in CancelCauses :
          mx' = [mx EXCEPT !.cancel_token = TRUE, !.cancel_phase = mx.pc,
                           !.cancel_cause = cause]
    /\ UNCHANGED_NotMx

\* select_gateways: GatewayClient::new(..).map_err(Error::CreateGatewayClient)?
SelectCreateGatewayClient ==
    /\ mx.pc = "select_new"
    /\ \/ mx' = [mx EXCEPT !.pc = "select_wait", !.fut = "pending"]
       \/ mx' = [mx EXCEPT !.pc = "returned", !.result = "CreateGatewayClient"]
    /\ UNCHANGED_NotMx

\* what the future raced against the token can resolve to
FutureOutcomes(pc) ==
    IF pc = "select_wait" THEN {"Ok", "Err"} ELSE {"Ok", "Elapsed", "Err"}

\* the gateway selection, or the mixnet client startup under its timeout,
\* resolves
FutureResolves ==
    /\ mx.pc \in {"select_wait", "connect_wait"}
    /\ mx.fut = "pending"
    /\ \E r \in FutureOutcomes(mx.pc) : mx' = [mx EXCEPT !.fut = r]
    /\ UNCHANGED_NotMx

\* a race that polls the future before the token
RunUntilCancelled_FutureFirst(cancelled, fut, timeout_err, err) ==
    CASE fut = "Ok" -> "Ok"
      [] fut = "Elapsed" -> timeout_err
      [] fut = "Err" -> err
      [] OTHER -> "Cancelled"

\* run_until_cancelled(..).await.ok_or(Error::Cancelled) for a future that
\* resolved to fut ("pending" if it did not), followed by the map_err of err
RunUntilCancelled(cancelled, fut, timeout_err, err) ==
    IF cancelled THEN "Cancelled"
    ELSE CASE fut = "Ok" -> "Ok"
           [] fut = "Elapsed" -> timeout_err
           [] OTHER -> err

\* select_gateways: the race resolves
SelectPoll ==
    /\ mx.pc = "select_wait"
    /\ mx.cancel_token \/ mx.fut # "pending"
    /\ LET res == RunUntilCancelled(mx.cancel_token, mx.fut, "SelectGateways", "SelectGateways")
       IN  mx' = IF res = "Ok"
                 THEN [mx EXCEPT !.pc = "connect_new", !.fn = "connect_mixnet", !.fut = "none"]
                 ELSE [mx EXCEPT !.pc = "returned", !.result = res]
    /\ UNCHANGED_NotMx

\* connect_mixnet up to the race: the gateway client, the client
\* configuration for the tunnel type, the task manager
ConnectCreateGatewayClient ==
    /\ mx.pc = "connect_new"
    /\ \/ mx' = [mx EXCEPT !.pc = "connect_wait", !.fut = "pending",
                           !.disable_poisson_rate = (mx.tunnel_type = "Wireguard"),
                           !.disable_background_cover_traffic = (mx.tunnel_type = "Wireguard"),
                           !.task_manager = "running"]
       \/ mx' = [mx EXCEPT !.pc = "returned", !.result = "CreateGatewayClient"]
    /\ UNCHANGED_NotMx

\* a connect_mixnet that returns a cancellation without shutting down
ShutsDownOn_NotCancelled(res) == res \notin {"Ok", "Cancelled"}

\* connect_mixnet shuts its task manager down on every Err(e)
ShutsDownOn(res) == res # "Ok"

\* connect_mixnet: the race resolves
ConnectPoll ==
    /\ mx.pc = "connect_wait"
    /\ mx.cancel_token \/ mx.fut # "pending"
    /\ LET res == RunUntilCancelled(mx.cancel_token, mx.fut, "StartMixnetClientTimeout",
                                    "MixnetClient")
       IN  mx' = [mx EXCEPT !.result = res,
                            !.pc = IF ShutsDownOn(res) THEN "tm_signal" ELSE "returned"]
    /\ UNCHANGED_NotMx

\* shutdown_task_manager: signal_shutdown(), an error being logged only
SignalShutdown ==
    /\ mx.pc = "tm_signal"
    /\ \E failed \in BOOLEAN :
        mx' = [mx EXCEPT !.pc = "tm_wait", !.signal_calls = @ + 1,
                         !.signal_failed = failed, !.task_manager = "signalled"]
    /\ UNCHANGED_NotMx

\* shutdown_task_manager: wait_for_shutdown().await, then connect_mixnet
\* returns Err(e)
WaitForShutdown ==
    /\ mx.pc = "tm_wait"
    /\ mx' = [mx EXCEPT !.pc = "returned", !.task_manager = "finished"]
    /\ UNCHANGED_NotMx

\* the state the connecting state reports for an attempt that returned e: a
\* cancelled attempt belongs to the Disconnect (Disconnecting{Nothing}) or to
\* the shutdown (Finished, no event) that cancelled it; a failure is carried
\* as Error::ConnectMixnetClient and reported as Error(reason)
ReportedState(e, cause) ==
    IF e = "Cancelled"
    THEN IF cause = "Disconnect" THEN <<"Disconnecting", <<"Nothing">>>> ELSE <<"Finished">>
    ELSE <<"Error", error_state_reason(<<"ConnectMixnetClient", 1>>)>>

\* the connecting state takes the error of the attempt
ClassifyFailure ==
    /\ mx.pc = "returned"
    /\ mx.result \in TunnelErrors
    /\ mx' = [mx EXCEPT !.pc = "classified",
                        !.log = @ \cup {[fn |-> mx.fn, error |-> mx.result,
                                         cancel_phase |-> mx.cancel_phase,
                                         state |-> ReportedState(mx.result, mx.cancel_cause)]}]
    /\ UNCHANGED_NotMx

\* the caller asks for a new connect attempt
NextAttempt ==
    /\ mx.pc = "classified"
    /\ mx.attempts < MaxAttempts
    /\ \E t \in TunnelType : mx' = MxAttempt(t, mx.log, mx.attempts + 1)
    /\ UNCHANGED_NotMx

(***************************************************************************)
(* The gateway authenticator client (nym-wg-gateway-client/src/lib.rs).    *)
(* wg.pc is the position of the current call; wg.transmissions records     *)
(* every message handed to auth_client.send, in order.                     *)
(***************************************************************************)
\* const RETRY_PERIOD: Duration = Duration::from_secs(30)
RETRY_PERIOD == 30

\* ClientMessage, as <<variant, credential>>; credential 0 is no credential
ClientMessage ==
    {<<"Initial", 0>>, <<"Query", 0>>}
        \cup {<<"Final", c>> : c \in 0..MaxCalls}
        \cup {<<"TopUp", c>> : c \in 1..MaxCalls}

\* errors of auth_client.send
AuthClientErrors == {"TimeoutWaitingForConnectResponse", "Other"}

\* AuthenticatorResponseData the gateway may answer with
AuthenticatorResponseData ==
    {"PendingRegistration", "Registered", "RemainingBandwidth",
     "RemainingBandwidthNone", "TopUpBandwidth"}

\* seconds one transmission may wait before it times out
Waits == {MaxWait \div 2, MaxWait}

\* ClientMessage::is_wasteful: the registration handshake is wasteful, a
\* top-up and a query are not
is_wasteful(msg) == msg[1] \in {"Initial", "Final"}

\* pub const TICKETS_TO_SPEND: u32 = 1
TICKETS_TO_SPEND == 1

\* gateway_host: IpAddr
GatewayHosts == {"V4", "V6"}

\* the reply of a RegisteredResponse
RegisteredReplies ==
    {[pub_key |-> "gateway_key", wg_port |-> p, private_ips |-> "ips"] : p \in {"port_a", "port_b"}}

\* no registered data received
NoRegisteredData == [pub_key |-> "none", wg_port |-> "none", private_ips |-> "none"]

\* available_bandwidth of a RemainingBandwidthResponse that has a payload
Bandwidths == 0..MaxBandwidth

WgIdle ==
    [pc |-> "idle", fn |-> "none", msg |-> <<"none", 0>>, elapsed |-> 0,
     transmissions |-> <<>>, outcomes |-> <<>>, last_error |-> "none",
     response |-> "none", initial_reply |-> "none", registered_data |-> NoRegisteredData,
     available_bandwidth |-> 0,
     verified |-> "none", result |-> <<"none">>, enable_credentials_mode |-> FALSE,
     gateway_host |-> "none", controller_calls |-> 0, tickets |-> 0,
     credentials |-> 0, calls |-> 0]

UNCHANGED_NotWg == UNCHANGED <<tsm_vars, vpn, mx, rest_vars>>

\* a call starts: the fields of the previous call are cleared
WgStart(fn, pc) ==
    [wg EXCEPT !.pc = pc, !.fn = fn, !.msg = <<"none", 0>>, !.elapsed = 0,
               !.outcomes = <<>>, !.last_error = "none", !.response = "none",
               !.initial_reply = "none", !.registered_data = NoRegisteredData,
               !.available_bandwidth = 0, !.verified = "none",
               !.result = <<"none">>, !.enable_credentials_mode = FALSE,
               !.gateway_host = "none", !.controller_calls = 0, !.tickets = 0,
               !.calls = @ + 1]

WgCallable == wg.pc \in {"idle", "returned"} /\ wg.calls < MaxCalls

\* a call returns
WgReturn(result) == [wg EXCEPT !.pc = "returned", !.result = result]

\* auth_client.send(msg, recipient): one transmission
Transmitted(msg) == [wg EXCEPT !.transmissions = Append(@, msg)]

\* one transmission and what came back: "Ok" or the error; before is the
\* time send had spent in its loop when the message went out
Answered(msg, outcome, before) ==
    [Transmitted(msg) EXCEPT
        !.outcomes = Append(@, [msg |-> msg, outcome |-> outcome, before |-> before]),
        !.last_error = IF outcome = "Ok" THEN @ ELSE outcome]

\* an error that leaves as NoRetry with the error as its source
PropagatedError_NoRetry(e) == <<"Err", "NoRetry", e>>

\* `?` on the result of auth_client.send: the error of the authenticator
\* client is returned as it is
PropagatedError(e) == <<"Err", "AuthenticatorClient", e>>

\* top_up(credential), with a credential prepared for this call: builds the
\* TopUp message and calls send
TopUpCall ==
    /\ WgCallable
    /\ wg' = [WgStart("top_up", "send") EXCEPT
                  !.credentials = @ + 1, !.msg = <<"TopUp", wg.credentials + 1>>]
    /\ UNCHANGED_NotWg

\* send: if msg.is_wasteful() { let now = Instant::now(); while .. } else { .. }
SendEnter ==
    /\ wg.pc = "send"
    /\ wg' = [wg EXCEPT !.pc = IF is_wasteful(wg.msg) THEN "send_retry" ELSE "send_once",
                        !.elapsed = 0]
    /\ UNCHANGED_NotWg

\* a loop that goes on after every error
AfterRetryError_Always(e) == "send_retry"

\* where the wasteful branch goes after Err(e) of a transmission
AfterRetryError(e) ==
    IF e = "TimeoutWaitingForConnectResponse" THEN "send_retry" ELSE "after_send"

\* send, wasteful branch: one iteration of while now.elapsed() < RETRY_PERIOD
SendRetry ==
    /\ wg.pc = "send_retry"
    /\ wg.elapsed < RETRY_PERIOD
    /\ \/ \E r \in AuthenticatorResponseData :
            wg' = [Answered(wg.msg, "Ok", wg.elapsed) EXCEPT
                       !.pc = "after_send", !.response = r, !.result = <<"Ok">>]
       \/ \E e \in AuthClientErrors, d \in Waits :
            wg' = [Answered(wg.msg, e, wg.elapsed) EXCEPT
                       !.pc = AfterRetryError(e),
                       !.elapsed = IF e = "TimeoutWaitingForConnectResponse"
                                   THEN @ + d ELSE @,
                       !.result = IF AfterRetryError(e) = "after_send"
                                  THEN <<"Err", "NoRetry", e>> ELSE @]
    /\ UNCHANGED_NotWg

\* send, wasteful branch: the loop ends, Err(NoRetry { source: Timeout.. })
SendRetryExhausted ==
    /\ wg.pc = "send_retry"
    /\ ~(wg.elapsed < RETRY_PERIOD)
    /\ wg' = [wg EXCEPT !.pc = "after_send",
                        !.result = <<"Err", "NoRetry", "TimeoutWaitingForConnectResponse">>]
    /\ UNCHANGED_NotWg

\* where the other branch goes after Err(e) of its transmission
AfterOnceError_RetryOnTimeout(e) ==
    IF e = "TimeoutWaitingForConnectResponse" THEN "send_once" ELSE "after_send"

AfterOnceError(e) == "after_send"

\* send, the other branch: Ok(self.auth_client.send(..).await?)
SendOnce ==
    /\ wg.pc = "send_once"
    /\ \/ \E r \in AuthenticatorResponseData :
            wg' = [Answered(wg.msg, "Ok", 0) EXCEPT
                       !.pc = "after_send", !.response = r, !.result = <<"Ok">>]
       \/ \E e \in AuthClientErrors :
            wg' = [Answered(wg.msg, e, 0) EXCEPT
                       !.pc = AfterOnceError(e), !.result = PropagatedError(e)]
    /\ UNCHANGED_NotWg

\* top_up after send: `?`, then the match on response.data
TopUpReturn ==
    /\ wg.pc = "after_send"
    /\ wg.fn = "top_up"
    /\ wg' = WgReturn(IF wg.result # <<"Ok">> THEN wg.result
                      ELSE IF wg.response = "TopUpBandwidth" THEN <<"Ok", "available_bandwidth">>
                      ELSE <<"Err", "InvalidGatewayAuthResponse">>)
    /\ UNCHANGED_NotWg

\* a query_bandwidth that reports an empty payload as None
query_bandwidth_EmptyIsNone(data, available_bandwidth) ==
    CASE data = "RemainingBandwidth" -> <<"Ok", <<"Some", available_bandwidth>>>>
      [] data = "RemainingBandwidthNone" -> <<"Ok", <<"None">>>>
      [] OTHER -> <<"Err", "InvalidGatewayAuthResponse">>

\* a query_bandwidth that reports no bandwidth left as None
query_bandwidth_ZeroIsNone(data, available_bandwidth) ==
    CASE data = "RemainingBandwidth" ->
             IF available_bandwidth > 0 THEN <<"Ok", <<"Some", available_bandwidth>>>>
             ELSE <<"Ok", <<"None">>>>
      [] data = "RemainingBandwidthNone" -> <<"Ok", <<"Some", 0>>>>
      [] OTHER -> <<"Err", "InvalidGatewayAuthResponse">>

\* query_bandwidth, the match on response.data: reply: Some(data) gives
\* Ok(Some(available_bandwidth)), reply: None gives Ok(Some(0)), any other
\* response Err(InvalidGatewayAuthResponse)
query_bandwidth(data, available_bandwidth) ==
    CASE data = "RemainingBandwidth" -> <<"Ok", <<"Some", available_bandwidth>>>>
      [] data = "RemainingBandwidthNone" -> <<"Ok", <<"Some", 0>>>>
      [] OTHER -> <<"Err", "InvalidGatewayAuthResponse">>

\* suspended: Ok(self.query_bandwidth().await?.is_none())
suspended(queried) ==
    IF queried[1] = "Ok" THEN <<"Ok", queried[2] = <<"None">>>> ELSE queried

\* query_bandwidth as fn calls it: the Query message goes to
\* auth_client.send directly, with `?`; then the match on response.data
QueryFrom(fn) ==
    /\ WgCallable
    /\ LET started == [WgStart(fn, "returned") EXCEPT !.msg = <<"Query", 0>>]
           Sent(outcome) ==
               [started EXCEPT
                   !.transmissions = Append(@, <<"Query", 0>>),
                   !.outcomes = <<[msg |-> <<"Query", 0>>, outcome |-> outcome, before |-> 0]>>,
                   !.last_error = IF outcome = "Ok" THEN @ ELSE outcome]
           Returned(queried) == IF fn = "suspended" THEN suspended(queried) ELSE queried
       IN  \/ \E r \in AuthenticatorResponseData \ {"RemainingBandwidth"} :
                wg' = [Sent("Ok") EXCEPT !.response = r,
                                         !.result = Returned(query_bandwidth(r, 0))]
           \/ \E available_bandwidth \in Bandwidths :
                wg' = [Sent("Ok") EXCEPT
                          !.response = "RemainingBandwidth",
                          !.available_bandwidth = available_bandwidth,
                          !.result = Returned(query_bandwidth("RemainingBandwidth",
                                                              available_bandwidth))]
           \/ \E e \in AuthClientErrors :
                wg' = [Sent(e) EXCEPT !.result = Returned(PropagatedError(e))]
    /\ UNCHANGED_NotWg

\* a call of query_bandwidth
QueryBandwidth == QueryFrom("query_bandwidth")

\* a call of suspended
Suspended == QueryFrom("suspended")

\* register_wireguard(gateway_host, controller, enable_credentials_mode, ..)
\* builds the Initial message
RegisterWireguard ==
    /\ WgCallable
    /\ \E enable_credentials_mode \in BOOLEAN, gateway_host \in GatewayHosts :
          wg' = [WgStart("register_wireguard", "reg_initial") EXCEPT
                     !.msg = <<"Initial", 0>>,
                     !.enable_credentials_mode = enable_credentials_mode,
                     !.gateway_host = gateway_host]
    /\ UNCHANGED_NotWg

\* a registration that prepares a credential before it accepts Registered
AfterInitialReply_CredentialFirst(data) ==
    CASE data = "PendingRegistration" -> "reg_verify"
      [] data = "Registered" -> "reg_credential"
      [] OTHER -> "returned"

\* the outer match on response.data of the reply to Initial: the arm of
\* PendingRegistration verifies, the arm of Registered takes the reply, any
\* other data returns Err(InvalidGatewayAuthResponse)
AfterInitialReply(data) ==
    CASE data = "PendingRegistration" -> "reg_verify"
      [] data = "Registered" -> "reg_gateway_data"
      [] OTHER -> "returned"

\* register_wireguard: Initial goes to auth_client.send directly, with `?`;
\* then the outer match on response.data
RegisterInitial ==
    /\ wg.pc = "reg_initial"
    /\ \/ \E e \in AuthClientErrors :
            wg' = [Answered(wg.msg, e, 0) EXCEPT !.pc = "returned",
                                                 !.result = PropagatedError(e)]
       \/ wg' = [Answered(wg.msg, "Ok", 0) EXCEPT
                     !.pc = AfterInitialReply("PendingRegistration"),
                     !.response = "PendingRegistration",
                     !.initial_reply = "PendingRegistration"]
       \/ \E reply \in RegisteredReplies :
            wg' = [Answered(wg.msg, "Ok", 0) EXCEPT
                       !.pc = AfterInitialReply("Registered"), !.response = "Registered",
                       !.initial_reply = "Registered", !.registered_data = reply]
       \/ \E r \in AuthenticatorResponseData \ {"PendingRegistration", "Registered"} :
            wg' = [Answered(wg.msg, "Ok", 0) EXCEPT
                       !.pc = AfterInitialReply(r), !.response = r, !.initial_reply = r,
                       !.result = <<"Err", "InvalidGatewayAuthResponse">>]
    /\ UNCHANGED_NotWg

\* a registration that goes on after a failed verification
AfterVerify_GoesOn(ok) == "reg_credential"

\* gateway_data.verify(..).map_err(Error::VerificationFailed)?
AfterVerify(ok) == IF ok THEN "reg_credential" ELSE "returned"

\* register_wireguard: the gateway data of PendingRegistration is verified
\* against the private key and the nonce
RegisterVerify ==
    /\ wg.pc = "reg_verify"
    /\ \E ok \in BOOLEAN :
          wg' = [wg EXCEPT !.pc = AfterVerify(ok),
                           !.verified = IF ok THEN "ok" ELSE "failed",
                           !.result = IF AfterVerify(ok) = "returned"
                                      THEN <<"Err", "VerificationFailed">> ELSE @]
    /\ UNCHANGED_NotWg

\* a registration that asks for a credential in every mode
RequestsCredential_Always(enable_credentials_mode) == TRUE

\* let credential = if enable_credentials_mode { Some(..) } else { None }
RequestsCredential(enable_credentials_mode) == enable_credentials_mode

\* register_wireguard: request_bandwidth prepares TICKETS_TO_SPEND tickets in
\* credentials mode (Error::GetTicket if it cannot); the Final message is
\* built with the credential or with None and handed to send
RegisterCredential ==
    /\ wg.pc = "reg_credential"
    /\ IF RequestsCredential(wg.enable_credentials_mode)
       THEN \/ wg' = [wg EXCEPT !.pc = "send", !.controller_calls = @ + 1,
                                !.tickets = @ + TICKETS_TO_SPEND,
                                !.credentials = @ + 1,
                                !.msg = <<"Final", wg.credentials + 1>>]
            \/ wg' = [WgReturn(<<"Err", "GetTicket">>) EXCEPT !.controller_calls = @ + 1]
       ELSE wg' = [wg EXCEPT !.pc = "send", !.msg = <<"Final", 0>>]
    /\ UNCHANGED_NotWg

\* a registration that takes any reply to Final for Registered
FinalReplyAccepted_Any(data) == TRUE

\* let AuthenticatorResponseData::Registered(..) = response.data else { .. }
FinalReplyAccepted(data) == data = "Registered"

\* register_wireguard after send of Final: `?`, then let .. else
RegisterReturn ==
    /\ wg.pc = "after_send"
    /\ wg.fn = "register_wireguard"
    /\ \/ /\ wg.result # <<"Ok">>
          /\ wg' = WgReturn(wg.result)
       \/ /\ wg.result = <<"Ok">>
          /\ ~FinalReplyAccepted(wg.response)
          /\ wg' = WgReturn(<<"Err", "InvalidGatewayAuthResponse">>)
       \/ /\ wg.result = <<"Ok">>
          /\ FinalReplyAccepted(wg.response)
          /\ \E reply \in RegisteredReplies :
                wg' = [wg EXCEPT !.pc = "reg_gateway_data", !.registered_data = reply]
    /\ UNCHANGED_NotWg

\* format!("{}:{}", gateway_host, wg_port): an IPv6 host is written without
\* brackets
FormatEndpoint(gateway_host, wg_port) ==
    [text |-> <<gateway_host, ":", wg_port>>, bracketed |-> FALSE]

\* SocketAddr::from_str: an IPv4 address and port parse; an IPv6 address
\* parses only inside brackets
SocketAddrFromStr(s) ==
    IF s.text[1] = "V4" \/ s.bracketed
    THEN <<"Ok", [ip |-> s.text[1], port |-> s.text[3]]>>
    ELSE <<"Err", "AddrParseError">>

\* the GatewayData made of the registered data, or
\* Err(FailedToParseEntryGatewaySocketAddr)
GatewayDataOf(gateway_host, registered_data) ==
    LET endpoint == SocketAddrFromStr(FormatEndpoint(gateway_host, registered_data.wg_port))
    IN  IF endpoint[1] = "Ok"
        THEN <<"Ok", [public_key |-> registered_data.pub_key, endpoint |-> endpoint[2],
                      private_ipv4 |-> <<registered_data.private_ips, "ipv4">>,
                      private_ipv6 |-> <<registered_data.private_ips, "ipv6">>]>>
        ELSE <<"Err", "FailedToParseEntryGatewaySocketAddr">>

\* register_wireguard: GatewayData is built from the registered data
RegisterGatewayData ==
    /\ wg.pc = "reg_gateway_data"
    /\ wg' = WgReturn(GatewayDataOf(wg.gateway_host, wg.registered_data))
    /\ UNCHANGED_NotWg

(***************************************************************************)
(* Specifications.  Each one runs one component from its initial states    *)
(* and leaves the other components idle.                                   *)
(***************************************************************************)
(***************************************************************************)
(* A fallible step of a state handler that fails, and the reason the       *)
(* handler reports for it (Error::error_state_reason).                     *)
(***************************************************************************)
FailureIdle == [pc |-> "idle", error |-> <<"none", 0>>, reason |-> "none"]

UNCHANGED_NotFailure ==
    UNCHANGED <<tsm_vars, vpn, mx, wg, storage, ffi, selector, platform, wggo>>

\* a step of a handler returns Err(e)
StepFails ==
    /\ failure.pc = "idle"
    /\ \E e \in Error : failure' = [pc |-> "failed", error |-> e, reason |-> "none"]
    /\ UNCHANGED_NotFailure

\* the handler calls e.error_state_reason()
ClassifyError ==
    /\ failure.pc = "failed"
    /\ failure' = [failure EXCEPT !.pc = "classified",
                                  !.reason = error_state_reason(failure.error)]
    /\ UNCHANGED_NotFailure

(***************************************************************************)
(* OnDiskMnemonicStorage (nym-vpn-store/src/mnemonic/on_disk.rs).  The     *)
(* file at self.path holds the JSON text of a StoredMnemonic, written as   *)
(* a sequence of tokens; a mnemonic is a sequence of words of the word     *)
(* list.                                                                   *)
(***************************************************************************)
WordList == {"abandon", "zoo"}

\* bip39::Mnemonic
Mnemonic == UNION {[1..n -> WordList] : n \in 1..MaxWords}

RECURSIVE to_string(_)
\* the words of a mnemonic joined by spaces, as its Serialize writes them
to_string(words) ==
    IF Len(words) <= 1 THEN words
    ELSE <<Head(words), " ">> \o to_string(Tail(words))

\* serde_json::to_writer(file, &stored_mnemonic)
to_writer(stored_mnemonic) ==
    <<"{", "name", stored_mnemonic.name, "mnemonic">>
        \o to_string(stored_mnemonic.mnemonic)
        \o <<"nonce", "0", "}">>

\* the mnemonic a text of words and spaces stands for, if it is one
from_str(text) ==
    LET n == (Len(text) + 1) \div 2
        words == [i \in 1..n |-> text[2 * i - 1]]
    IN IF /\ Len(text) % 2 = 1
          /\ \A i \in 1..Len(text) :
                IF i % 2 = 1 THEN text[i] \in WordList ELSE text[i] = " "
          /\ words \in Mnemonic
       THEN [ok |-> TRUE, mnemonic |-> words]
       ELSE [ok |-> FALSE, mnemonic |-> <<>>]

\* serde_json::from_reader(file): the StoredMnemonic a text stands for, or a
\* serde_json::Error
from_reader(text) ==
    LET n == Len(text) IN
    IF /\ n >= 8
       /\ text[1] = "{" /\ text[2] = "name" /\ text[4] = "mnemonic"
       /\ text[n - 2] = "nonce" /\ text[n - 1] = "0" /\ text[n] = "}"
       /\ from_str(SubSeq(text, 5, n - 3)).ok
    THEN [ok |-> TRUE, name |-> text[3], mnemonic |-> from_str(SubSeq(text, 5, n - 3)).mnemonic]
    ELSE [ok |-> FALSE, name |-> "", mnemonic |-> <<>>]

\* the directory self.path lies in: not there, owned by the caller, or
\* owned by someone else (its permissions cannot be set)
ParentDirs == {"missing", "owned", "foreign"}

StorageAt(parent) == [parent |-> parent, exists |-> FALSE, content |-> <<>>, calls |-> <<>>]

StorageIdle == StorageAt("owned")

UNCHANGED_NotStorage ==
    UNCHANGED <<tsm_vars, vpn, mx, wg, failure, ffi, selector, platform, wggo>>

\* one call, what path.exists() was before it, and what it returned
Called(op, mnemonic, tag, value) ==
    [op |-> op, mnemonic |-> mnemonic, existed |-> storage.exists,
     result |-> [tag |-> tag, value |-> value]]

\* a store_mnemonic that does not look whether the file exists
AlreadyStored_Never(exists) == FALSE

\* `if self.path.exists()` of store_mnemonic
AlreadyStored(exists) == exists

\* store_mnemonic: the check for the file, OpenOptions create_new, then
\* create_dir_all and set_permissions on the parent, to_writer, and
\* set_permissions on the file
store_mnemonic ==
    /\ Len(storage.calls) < MaxStoreCalls
    /\ \E mnemonic \in Mnemonic :
        LET stored_mnemonic == [name |-> "default", mnemonic |-> mnemonic, nonce |-> 0] IN
        storage' =
          IF AlreadyStored(storage.exists)
          THEN [storage EXCEPT !.calls =
                   Append(@, Called("store", mnemonic, "MnemonicAlreadyStored", <<>>))]
          ELSE IF storage.parent = "missing"
          THEN [storage EXCEPT !.calls =
                   Append(@, Called("store", mnemonic, "FileCreateError", <<>>))]
          ELSE IF storage.parent = "foreign"
          THEN [storage EXCEPT !.exists = TRUE, !.content = <<>>,
                               !.calls =
                   Append(@, Called("store", mnemonic, "FileCreateError", <<>>))]
          ELSE [storage EXCEPT !.exists = TRUE, !.content = to_writer(stored_mnemonic),
                               !.calls = Append(@, Called("store", mnemonic, "Ok", <<>>))]
    /\ UNCHANGED_NotStorage

\* load_mnemonic: set_permissions on the file, File::open, from_reader
load_mnemonic ==
    /\ Len(storage.calls) < MaxStoreCalls
    /\ storage' = [storage EXCEPT !.calls = Append(@,
          IF ~storage.exists THEN Called("load", <<>>, "FileOpenError", <<>>)
          ELSE IF ~from_reader(storage.content).ok THEN Called("load", <<>>, "ReadError", <<>>)
          ELSE Called("load", <<>>, "Ok", from_reader(storage.content).mnemonic))]
    /\ UNCHANGED_NotStorage

\* remove_mnemonic: std::fs::remove_file
remove_mnemonic ==
    /\ Len(storage.calls) < MaxStoreCalls
    /\ storage' =
          IF storage.exists
          THEN [storage EXCEPT !.exists = FALSE, !.content = <<>>,
                               !.calls = Append(@, Called("remove", <<>>, "Ok", <<>>))]
          ELSE [storage EXCEPT !.calls = Append(@, Called("remove", <<>>, "RemoveError", <<>>))]
    /\ UNCHANGED_NotStorage

(***************************************************************************)
(* The legacy FFI layer (nym-vpn-lib/src/platform/mod.rs), other than iOS, *)
(* from the return of a successful startVPN on.  The stop handle is a      *)
(* tokio Notify: ffi.permit is its stored permit, ffi.waiters the tasks    *)
(* waiting in notified(), oldest first.                                    *)
(***************************************************************************)
\* after startVPN returned Ok: RUNNING is set, VPN_SHUTDOWN_HANDLE holds the
\* stop handle, the VPN task and the task of run_vpn are spawned
FfiStarted ==
    [running |-> TRUE, handle |-> TRUE, permit |-> FALSE, waiters |-> <<>>,
     stop |-> "idle", stop_result |-> "none", stops |-> 0,
     start_result |-> "Ok", starts |-> 0,
     wait_task |-> "spawned", stop_task |-> "none",
     nym_vpn |-> "setup", vpn_ctrl |-> <<>>]

UNCHANGED_NotFfi ==
    UNCHANGED <<tsm_vars, vpn, mx, wg, failure, storage, selector, platform, wggo>>

\* a waiter of the stop handle is woken: it returns from notified().await
Woken(f, task) ==
    IF task = "stop_task" THEN [f EXCEPT !.stop_task = "woken"]
    ELSE [f EXCEPT !.stop = "reset"]

RECURSIVE WokenAll(_, _)
WokenAll(f, tasks) ==
    IF tasks = <<>> THEN f ELSE WokenAll(Woken(f, Head(tasks)), Tail(tasks))

\* Notify::notify_waiters: wakes the tasks waiting now, stores no permit
notify_waiters(f) == [WokenAll(f, f.waiters) EXCEPT !.waiters = <<>>]

\* Notify::notify_one: wakes the oldest waiter, or stores the permit
notify_one(f) ==
    IF f.waiters = <<>> THEN [f EXCEPT !.permit = TRUE]
    ELSE [Woken(f, Head(f.waiters)) EXCEPT !.waiters = Tail(f.waiters)]

\* Notify::notified().await by task: takes the permit, or waits
notified(f, task) ==
    IF f.permit THEN [Woken(f, task) EXCEPT !.permit = FALSE]
    ELSE IF task = "stop_task"
         THEN [f EXCEPT !.waiters = Append(@, task), !.stop_task = "waiting"]
         ELSE [f EXCEPT !.waiters = Append(@, task), !.stop = "waiting"]

\* startVPN, called again while no stopVPN is under way.  RUNNING.fetch_or(true)
\* rejects it while RUNNING is set.  Otherwise run_vpn calls _async_run_vpn:
\* set_shutdown_handle fails with VpnNotStopped when VPN_SHUTDOWN_HANDLE
\* holds a handle, and run_vpn then resets the handle and clears RUNNING;
\* with no handle held the new stop handle is stored, the VPN task and the
\* task of run_vpn are spawned and Ok is returned.  The tasks left of the
\* run before hold the stop handle and the channels of that run only.
startVPN ==
    /\ ffi.stop \in {"idle", "returned"}
    /\ ffi.starts < MaxStarts
    /\ ffi' = IF ffi.running
              THEN [ffi EXCEPT !.start_result = "VpnAlreadyRunning", !.starts = @ + 1]
              ELSE IF ffi.handle
              THEN [ffi EXCEPT !.handle = FALSE, !.running = FALSE,
                               !.start_result = "VpnNotStopped", !.starts = @ + 1]
              ELSE [FfiStarted EXCEPT !.stop = ffi.stop, !.stop_result = ffi.stop_result,
                                      !.stops = ffi.stops, !.starts = ffi.starts + 1]
    /\ UNCHANGED_NotFfi

\* stopVPN: RUNNING.fetch_and(false), then RUNTIME.block_on(stop_vpn())
stopVPN ==
    /\ ffi.stop \in {"idle", "returned"}
    /\ ffi.stops < MaxStops
    /\ ffi' = IF ffi.running
              THEN [ffi EXCEPT !.running = FALSE, !.stop = "stop_vpn",
                               !.stop_result = "none", !.stops = @ + 1]
              ELSE [ffi EXCEPT !.stop = "returned", !.stop_result = "VpnNotStarted",
                               !.stops = @ + 1]
    /\ UNCHANGED_NotFfi

\* stop_and_reset_shutdown_handle: the lock and sh.notify_waiters()
StopNotifyWaiters ==
    /\ ffi.stop = "stop_vpn"
    /\ ffi' = IF ffi.handle
              THEN [notify_waiters(ffi) EXCEPT !.stop = "notified"]
              ELSE [ffi EXCEPT !.stop = "returned", !.stop_result = "VpnNotStarted"]
    /\ UNCHANGED_NotFfi

\* stop_and_reset_shutdown_handle: sh.notified().await
StopNotified ==
    /\ ffi.stop = "notified"
    /\ ffi' = notified(ffi, "stop_vpn")
    /\ UNCHANGED_NotFfi

\* stop_and_reset_shutdown_handle: *guard = None, and the return of stopVPN
StopReset ==
    /\ ffi.stop = "reset"
    /\ ffi' = [ffi EXCEPT !.handle = FALSE, !.stop = "returned", !.stop_result = "Ok"]
    /\ UNCHANGED_NotFfi

\* the task of run_vpn starts wait_for_shutdown, which spawns the task that
\* waits on the stop handle, and awaits vpn_exit_rx
WaitForShutdownSpawn ==
    /\ ffi.wait_task = "spawned"
    /\ ffi' = [ffi EXCEPT !.wait_task = "vpn_exit_rx", !.stop_task = "spawned"]
    /\ UNCHANGED_NotFfi

\* wait_for_shutdown receives the exit status and returns
WaitForShutdownExit ==
    /\ ffi.wait_task = "vpn_exit_rx"
    /\ ffi.nym_vpn \in {"Stopped", "Failed"}
    /\ ffi' = [ffi EXCEPT !.wait_task = "notify_one",
                          !.running = IF ffi.nym_vpn = "Failed" THEN FALSE ELSE @]
    /\ UNCHANGED_NotFfi

\* the task of run_vpn: stop_handle.notify_one()
RunVpnNotifyOne ==
    /\ ffi.wait_task = "notify_one"
    /\ ffi' = [notify_one(ffi) EXCEPT !.wait_task = "done"]
    /\ UNCHANGED_NotFfi

\* the spawned task: stop_handle.notified().await
StopTaskNotified ==
    /\ ffi.stop_task = "spawned"
    /\ ffi' = notified(ffi, "stop_task")
    /\ UNCHANGED_NotFfi

\* the spawned task: vpn_ctrl_tx.send(NymVpnCtrlMessage::Stop), whose error
\* is the value of the task nobody looks at
StopTaskSend ==
    /\ ffi.stop_task = "woken"
    /\ ffi' = [ffi EXCEPT !.stop_task = "done",
                          !.vpn_ctrl = IF ffi.nym_vpn \in {"setup", "listening"}
                                         THEN Append(@, "Stop") ELSE @]
    /\ UNCHANGED_NotFfi

\* run_nym_vpn: run_and_listen has set the tunnel up and listens on vpn_ctrl_rx
NymVpnListens ==
    /\ ffi.nym_vpn = "setup"
    /\ ffi' = [ffi EXCEPT !.nym_vpn = "listening"]
    /\ UNCHANGED_NotFfi

\* run_nym_vpn: run_and_listen returns Ok on the Stop message
NymVpnStopped ==
    /\ ffi.nym_vpn = "listening"
    /\ ffi.vpn_ctrl # <<>>
    /\ ffi' = [ffi EXCEPT !.nym_vpn = "Stopped", !.vpn_ctrl = <<>>]
    /\ UNCHANGED_NotFfi

\* run_nym_vpn: run_and_listen returns an error
NymVpnFailed ==
    /\ ffi.nym_vpn \in {"setup", "listening"}
    /\ ffi' = [ffi EXCEPT !.nym_vpn = "Failed", !.vpn_ctrl = <<>>]
    /\ UNCHANGED_NotFfi

(***************************************************************************)
(* Gateway selection, after the contract of the design (section 4.2): the  *)
(* candidates of the directory are filtered by the capability the tunnel   *)
(* type needs and by the minimum performance, each of entry and exit is    *)
(* picked at random among the candidates its specification admits, and a   *)
(* pair of one gateway is rejected when a country was requested for both.  *)
(***************************************************************************)
\* the minimum performance score of a candidate
min_gateway_performance == 50

\* the gateways a directory may list
Gateways ==
    {[identity |-> "g1", country |-> "CH", ipr |-> TRUE, authenticator |-> TRUE, performance |-> 90],
     [identity |-> "g2", country |-> "CH", ipr |-> FALSE, authenticator |-> TRUE, performance |-> 90],
     [identity |-> "g3", country |-> "SE", ipr |-> TRUE, authenticator |-> TRUE, performance |-> 90],
     [identity |-> "g4", country |-> "CH", ipr |-> TRUE, authenticator |-> TRUE, performance |-> 10]}

\* EntryPoint and ExitPoint: any gateway, a country, or an identity
Points ==
    {<<"Random">>} \cup {<<"Location", c>> : c \in {"CH", "SE"}}
        \cup {<<"Gateway", id>> : id \in {"g1", "g3"}}

SelectorIdle ==
    [pc |-> "idle", tunnel_type |-> "Mixnet", gateways |-> {},
     entry_point |-> <<"Random">>, exit_point |-> <<"Random">>,
     result |-> [tag |-> "none", entry |-> "none", exit |-> "none"]]

UNCHANGED_NotSelector ==
    UNCHANGED <<tsm_vars, vpn, mx, wg, failure, storage, ffi, platform, wggo>>

\* the candidates left by the capability and performance filters
Filtered(gateways, tunnel_type) ==
    {g \in gateways :
        /\ tunnel_type = "Mixnet" => g.ipr
        /\ tunnel_type = "Wireguard" => g.authenticator
        /\ g.performance >= min_gateway_performance}

\* the candidates a specification admits
Admitted(point, candidates) ==
    CASE point[1] = "Random" -> candidates
      [] point[1] = "Location" -> {g \in candidates : g.country = point[2]}
      [] point[1] = "Gateway" -> {g \in candidates : g.identity = point[2]}

\* the failure of a lookup that admits no candidate
LookupFailure(point) ==
    CASE point[1] = "Random" -> "NoMatchingGateway"
      [] point[1] = "Location" -> "NoMatchingGatewayForLocation"
      [] point[1] = "Gateway" -> "NoMatchingGatewayForIdentity"

\* a selection that accepts a pair of one gateway
SameEntryAndExit_Never(entry, exit, entry_point, exit_point) == FALSE

\* entry and exit resolve to the same gateway, a country requested for both
SameEntryAndExit(entry, exit, entry_point, exit_point) ==
    /\ entry_point[1] = "Location"
    /\ exit_point[1] = "Location"
    /\ entry = exit

Selected(tag, entry, exit) == [tag |-> tag, entry |-> entry, exit |-> exit]

\* gateway_selector::select_gateways
SelectGateways ==
    /\ selector.pc = "called"
    /\ LET candidates == Filtered(selector.gateways, selector.tunnel_type)
           exits == Admitted(selector.exit_point, candidates)
           entries == Admitted(selector.entry_point, candidates)
       IN \E result \in
               IF exits = {} THEN {Selected(LookupFailure(selector.exit_point), "none", "none")}
               ELSE IF entries = {}
               THEN {Selected(LookupFailure(selector.entry_point), "none", "none")}
               ELSE {IF SameEntryAndExit(entry, exit, selector.entry_point, selector.exit_point)
                     THEN Selected("SameEntryAndExitGatewayFromCountry", "none", "none")
                     ELSE Selected("Ok", entry.identity, exit.identity)
                       : entry \in entries, exit \in exits} :
             selector' = [selector EXCEPT !.pc = "returned", !.result = result]
    /\ UNCHANGED_NotSelector

(***************************************************************************)
(* The FFI layer over the tunnel state machine (crates/nym-vpn-lib/src/    *)
(* platform/mod.rs and platform/account.rs).  Threads call startVPN and    *)
(* stopVPN, each blocking on the runtime.  STATE_MACHINE_HANDLE is a tokio *)
(* Mutex held from lock().await to the return of the call.  Every          *)
(* start_state_machine that succeeds adds a run to platform.runs: the      *)
(* state machine task, its shutdown token, the event channel and the event *)
(* broadcaster task; platform.handle is the run whose StateMachineHandle   *)
(* is stored, 0 for None.  The status listener is registered.              *)
(***************************************************************************)
Threads == {"t1", "t2"}

\* enum ReadyToConnect
ReadyToConnect ==
    {"Ready", "NoMnemonicStored", "AccountNotActive", "NoActiveSubscription",
     "DeviceNotRegistered", "DeviceNotActive"}

\* shared_state.wait_for_ready_to_connect(timeout): Some(status), or None
\* when no status arrived in time
AccountReplies == ReadyToConnect \cup {"None"}

ThreadIdle ==
    [pc |-> "idle", fn |-> "none", account |-> "none", stored_at_call |-> 0,
     result |-> "none"]

PlatformIdle ==
    [account_controller |-> FALSE, handle |-> 0, lock |-> "free",
     threads |-> [t \in Threads |-> ThreadIdle], runs |-> <<>>, calls |-> 0]

UNCHANGED_NotPlatform ==
    UNCHANGED <<tsm_vars, vpn, mx, wg, failure, storage, ffi, selector, wggo>>

\* configureLib: start_account_controller_inner stores the handle of the
\* account controller; a call that finds one stored returns
\* InvalidStateError and changes nothing
configureLib ==
    /\ ~platform.account_controller
    /\ platform' = [platform EXCEPT !.account_controller = TRUE]
    /\ UNCHANGED_NotPlatform

\* wait_for_account_ready_to_connect: the reply of the account controller,
\* AccountStatusUnknown for None, InvalidStateError without a controller
wait_for_account_ready_to_connect(running, reply) ==
    IF ~running THEN <<"Err", "InvalidStateError">>
    ELSE IF reply = "None" THEN <<"Err", "AccountStatusUnknown">>
    ELSE <<"Ok", reply>>

\* a check that lets an account without subscription connect
assert_account_ready_to_connect_NoSubscription(waited) ==
    IF waited[1] = "Err" THEN waited[2]
    ELSE CASE waited[2] \in {"Ready", "NoActiveSubscription"} -> "Ok"
           [] waited[2] = "NoMnemonicStored" -> "NoAccountStored"
           [] waited[2] = "AccountNotActive" -> "AccountNotActive"
           [] waited[2] = "DeviceNotRegistered" -> "AccountDeviceNotRegistered"
           [] waited[2] = "DeviceNotActive" -> "AccountDeviceNotActive"

\* assert_account_ready_to_connect: `?` on the wait, then the match that
\* turns every status but Ready into its VpnError
assert_account_ready_to_connect(waited) ==
    IF waited[1] = "Err" THEN waited[2]
    ELSE CASE waited[2] = "Ready" -> "Ok"
           [] waited[2] = "NoMnemonicStored" -> "NoAccountStored"
           [] waited[2] = "AccountNotActive" -> "AccountNotActive"
           [] waited[2] = "NoActiveSubscription" -> "NoActiveSubscription"
           [] waited[2] = "DeviceNotRegistered" -> "AccountDeviceNotRegistered"
           [] waited[2] = "DeviceNotActive" -> "AccountDeviceNotActive"

\* a thread returns from its call with result
Returned(thread, result) == [thread EXCEPT !.pc = "returned", !.result = result]

\* start_vpn_inner up to STATE_MACHINE_HANDLE.lock(): the pre-connect check
\* account::assert_account_ready_to_connect(timeout).await?
start_vpn_inner(t) ==
    /\ platform.threads[t].pc \in {"idle", "returned"}
    /\ platform.calls < MaxPlatformCalls
    /\ \E reply \in AccountReplies :
        LET waited == wait_for_account_ready_to_connect(platform.account_controller, reply)
            called == [pc |-> "lock", fn |-> "startVPN",
                       account |-> IF platform.account_controller THEN reply
                                   ELSE "NotRunning",
                       stored_at_call |-> platform.handle, result |-> "none"]
        IN  platform' = [platform EXCEPT
                !.calls = @ + 1,
                !.threads[t] = IF assert_account_ready_to_connect(waited) = "Ok"
                               THEN called
                               ELSE Returned(called, assert_account_ready_to_connect(waited))]
    /\ UNCHANGED_NotPlatform

\* start_vpn_inner: STATE_MACHINE_HANDLE.lock().await
StartLock(t) ==
    /\ platform.threads[t].pc = "lock"
    /\ platform.lock = "free"
    /\ platform' = [platform EXCEPT !.lock = t, !.threads[t].pc = "locked"]
    /\ UNCHANGED_NotPlatform

\* a check that never finds a handle stored
HandleStored_Never(handle) == FALSE

\* guard.is_none() of start_vpn_inner, negated
HandleStored(handle) == handle # 0

\* start_state_machine returned Ok: the event broadcaster and the state
\* machine are spawned on new channels with a new shutdown token;
\* send_command(TunnelCommand::Connect) puts Connect on the command channel
NewRun ==
    [state_machine |-> "running", shutdown_token |-> FALSE, event_sender |-> TRUE,
     event_receiver |-> <<>>, emitted |-> <<>>, delivered |-> <<>>,
     event_broadcaster |-> "running", command_receiver |-> <<"Connect">>]

\* start_vpn_inner under the lock: with no handle stored start_state_machine
\* runs, which may fail (get_nym_urls, TunnelStateMachine::spawn); on Ok
\* Connect is sent and the handle stored.  With a handle stored:
\* InvalidStateError.  The guard is dropped at the return.
StartLocked(t) ==
    /\ platform.threads[t].pc = "locked"
    /\ IF ~HandleStored(platform.handle)
       THEN \/ platform' = [platform EXCEPT
                   !.runs = Append(@, NewRun),
                   !.handle = Len(platform.runs) + 1,
                   !.lock = "free",
                   !.threads[t] = Returned(@, "Ok")]
            \/ platform' = [platform EXCEPT
                   !.lock = "free",
                   !.threads[t] = Returned(@, "InternalError")]
       ELSE platform' = [platform EXCEPT
                   !.lock = "free",
                   !.threads[t] = Returned(@, "InvalidStateError")]
    /\ UNCHANGED_NotPlatform

\* stop_vpn_inner: the lock and guard.take(); None returns
\* InvalidStateError, Some goes on to shutdown_and_wait, whose first
\* statement cancels the shutdown token
stop_vpn_inner(t) ==
    /\ platform.threads[t].pc \in {"idle", "returned"}
    /\ platform.calls < MaxPlatformCalls
    /\ platform.lock = "free"
    /\ LET called == [pc |-> "join_state_machine", fn |-> "stopVPN", account |-> "none",
                      stored_at_call |-> platform.handle, result |-> "none"]
       IN  platform' =
             IF platform.handle # 0
             THEN [platform EXCEPT !.calls = @ + 1, !.lock = t, !.handle = 0,
                                   !.runs[platform.handle].shutdown_token = TRUE,
                                   !.threads[t] = called]
             ELSE [platform EXCEPT !.calls = @ + 1,
                                   !.threads[t] = Returned(called, "InvalidStateError")]
    /\ UNCHANGED_NotPlatform

\* a join that does not wait for the task
Joined_NoWait(task) == TRUE

\* `handle.await` on a JoinHandle completes when the task has ended
Joined(task) == task \in {"terminated", "ended"}

\* shutdown_and_wait: self.state_machine_handle.await
JoinStateMachine(t) ==
    /\ platform.threads[t].pc = "join_state_machine"
    /\ Joined(platform.runs[platform.threads[t].stored_at_call].state_machine)
    /\ platform' = [platform EXCEPT !.threads[t].pc = "join_event_broadcaster"]
    /\ UNCHANGED_NotPlatform

\* shutdown_and_wait: self.event_broadcaster_handler.await; then Ok(()) and
\* the guard is dropped
JoinEventBroadcaster(t) ==
    /\ platform.threads[t].pc = "join_event_broadcaster"
    /\ Joined(platform.runs[platform.threads[t].stored_at_call].event_broadcaster)
    /\ platform' = [platform EXCEPT !.lock = "free", !.threads[t] = Returned(@, "Ok")]
    /\ UNCHANGED_NotPlatform

\* TunnelStateMachine::run: event_sender.send(TunnelEvent::NewState(..));
\* the events of a run are numbered in the order of their emission
StateMachineSendsEvent(r) ==
    /\ platform.runs[r].state_machine = "running"
    /\ Len(platform.runs[r].emitted) < MaxEvents
    /\ LET event == Len(platform.runs[r].emitted) + 1
       IN  platform' = [platform EXCEPT !.runs[r].emitted = Append(@, event),
                                        !.runs[r].event_receiver = Append(@, event)]
    /\ UNCHANGED_NotPlatform

\* TunnelStateMachine::run returns once a handler saw the cancelled token
\* (child_token of the handle's token); the machine and its event sender
\* are dropped
StateMachineExits(r) ==
    /\ platform.runs[r].state_machine = "running"
    /\ platform.runs[r].shutdown_token
    /\ platform' = [platform EXCEPT !.runs[r].state_machine = "terminated",
                                    !.runs[r].event_sender = FALSE]
    /\ UNCHANGED_NotPlatform

\* the event broadcaster: Some(event) = event_receiver.recv().await, then
\* state_listener.on_event(event)
BroadcasterOnEvent(r) ==
    /\ platform.runs[r].event_broadcaster = "running"
    /\ platform.runs[r].event_receiver # <<>>
    /\ platform' = [platform EXCEPT
          !.runs[r].delivered = Append(@, Head(platform.runs[r].event_receiver)),
          !.runs[r].event_receiver = Tail(@)]
    /\ UNCHANGED_NotPlatform

\* the event broadcaster: recv() yields None, the channel being closed and
\* empty, and the while let loop ends
BroadcasterEnds(r) ==
    /\ platform.runs[r].event_broadcaster = "running"
    /\ platform.runs[r].event_receiver = <<>>
    /\ ~platform.runs[r].event_sender
    /\ platform' = [platform EXCEPT !.runs[r].event_broadcaster = "ended"]
    /\ UNCHANGED_NotPlatform

(***************************************************************************)
(* The WireGuard tunnel of nym-wg-go (nym-wg-go/src/wireguard_go.rs).      *)
(* wggo.tunnels lists every call of wgTurnOn with the handle it returned   *)
(* and the Tunnel made of it; wggo.turn_off lists the calls of wgTurnOff   *)
(* as pairs of the tunnel and the handle passed.                           *)
(***************************************************************************)
\* what wgTurnOn returns: a handle, or a negative error code
WgHandles == -2..1

WgGoIdle == [tunnels |-> <<>>, turn_off |-> <<>>, nul_byte_errors |-> 0]

UNCHANGED_NotWgGo ==
    UNCHANGED <<tsm_vars, vpn, mx, wg, failure, storage, ffi, selector, platform>>

\* Tunnel::start: a config with a nul byte fails before wgTurnOn is called;
\* a handle >= 0 makes a Tunnel, a negative one Err(StartTunnel(handle))
TunnelStart ==
    /\ Len(wggo.tunnels) + wggo.nul_byte_errors < MaxTunnels
    /\ \/ wggo' = [wggo EXCEPT !.nul_byte_errors = @ + 1]
       \/ \E handle \in WgHandles :
            wggo' = [wggo EXCEPT !.tunnels = Append(@,
                [wgTurnOn |-> handle, handle |-> handle,
                 state |-> IF handle >= 0 THEN "alive" ELSE "StartTunnel"])]
    /\ UNCHANGED_NotWgGo

\* a stop_inner that leaves the handle as it is
stop_inner_KeepsHandle(w, i) ==
    IF w.tunnels[i].handle >= 0
    THEN [w EXCEPT !.turn_off = Append(@, <<i, w.tunnels[i].handle>>)]
    ELSE w

\* Tunnel::stop_inner: if self.handle >= 0 { wgTurnOff(self.handle);
\* self.handle = -1 }
stop_inner(w, i) ==
    IF w.tunnels[i].handle >= 0
    THEN [w EXCEPT !.turn_off = Append(@, <<i, w.tunnels[i].handle>>),
                   !.tunnels[i].handle = -1]
    ELSE w

\* impl Drop for Tunnel: stop_inner, and the value is gone
drop(w, i) == [stop_inner(w, i) EXCEPT !.tunnels[i].state = "dropped"]

\* Tunnel::stop(mut self): stop_inner, and self is dropped at the end of
\* the function
TunnelStop ==
    /\ \E i \in 1..Len(wggo.tunnels) :
          /\ wggo.tunnels[i].state = "alive"
          /\ wggo' = [drop(stop_inner(wggo, i), i) EXCEPT !.tunnels[i].state = "stopped"]
    /\ UNCHANGED_NotWgGo

\* a Tunnel goes out of scope without stop
TunnelDrop ==
    /\ \E i \in 1..Len(wggo.tunnels) :
          /\ wggo.tunnels[i].state = "alive"
          /\ wggo' = drop(wggo, i)
    /\ UNCHANGED_NotWgGo

\* every component at rest, as it is when the others run
RestIdle ==
    /\ failure = FailureIdle /\ storage = StorageIdle /\ ffi = FfiStarted
    /\ selector = SelectorIdle /\ platform = PlatformIdle /\ wggo = WgGoIdle

(***************************************************************************)
(* Specifications.                                                         *)
(***************************************************************************)
Callers == SendCommand \/ DropCommandSenders \/ CancelShutdownToken \/ DropEventReceiver

Handlers ==
    \/ DisconnectedShutdown \/ DisconnectedCommand
    \/ ConnectingShutdown \/ ConnectingCommand \/ ConnectingSuccess
    \/ ConnectingFailure \/ ConnectingFailureDisconnect
    \/ ConnectedShutdown \/ ConnectedCommand
    \/ ConnectedFaultReconnect \/ ConnectedFaultError
    \/ DisconnectingShutdown \/ DisconnectingComplete
    \/ ErrorShutdown \/ ErrorCommand

Loop == Handlers \/ RunMatch \/ RunStop

Next == Callers \/ Loop

Init == TsmInit /\ vpn = VpnIdle /\ mx = MxIdle /\ wg = WgIdle /\ RestIdle

\* the tunnel state machine and its callers
Spec == Init /\ [][Next]_vars

\* The control loop is scheduled: a handler whose select has a ready branch
\* returns, and run() goes on to its match and to its exit.
FairSpec == Spec /\ WF_vars(Loop)

VpnInit ==
    /\ TsmInit
    /\ mx = MxIdle
    /\ wg = WgIdle
    /\ RestIdle
    /\ \E entry \in EntryPoints, tunnel \in TunnelKinds : vpn = VpnCall(entry, tunnel)

VpnNext ==
    \/ SetupRouteManager \/ InitFirewallDns
    \/ SetupWgConnect \/ SetupWgRoutes \/ SetupWgDns
    \/ SetupMixnetClient \/ SelfPing \/ IprConnect \/ LookupGatewayIp
    \/ SetupMixnetRouting \/ DisconnectAfterPostMixnet
    \/ CleanupAfterSetupFailure
    \/ WaitForInterrupt \/ ResetDns \/ ResetFirewall

\* calls of run and run_and_listen
VpnSpec == VpnInit /\ [][VpnNext]_vars

MxInit ==
    /\ TsmInit
    /\ vpn = VpnIdle
    /\ wg = WgIdle
    /\ RestIdle
    /\ \E t \in TunnelType : mx = MxAttempt(t, {}, 1)

MxNext ==
    \/ CancelToken \/ FutureResolves
    \/ SelectCreateGatewayClient \/ SelectPoll
    \/ ConnectCreateGatewayClient \/ ConnectPoll
    \/ SignalShutdown \/ WaitForShutdown
    \/ ClassifyFailure \/ NextAttempt

\* connect attempts of the mixnet connector
MxSpec == MxInit /\ [][MxNext]_vars

WgInit ==
    /\ TsmInit
    /\ vpn = VpnIdle
    /\ mx = MxIdle
    /\ wg = WgIdle
    /\ RestIdle

WgNext ==
    \/ TopUpCall \/ QueryBandwidth \/ Suspended \/ RegisterWireguard
    \/ SendEnter \/ SendRetry \/ SendRetryExhausted \/ SendOnce
    \/ TopUpReturn
    \/ RegisterInitial \/ RegisterVerify \/ RegisterCredential
    \/ RegisterReturn \/ RegisterGatewayData

\* calls on the gateway authenticator client
WgSpec == WgInit /\ [][WgNext]_vars

StorageInit ==
    /\ TsmInit /\ vpn = VpnIdle /\ mx = MxIdle /\ wg = WgIdle /\ failure = FailureIdle
    /\ ffi = FfiStarted /\ selector = SelectorIdle
    /\ platform = PlatformIdle /\ wggo = WgGoIdle
    /\ \E parent \in ParentDirs : storage = StorageAt(parent)

StorageNext == store_mnemonic \/ load_mnemonic \/ remove_mnemonic

\* calls on one OnDiskMnemonicStorage whose path holds nothing at first
StorageSpec == StorageInit /\ [][StorageNext]_vars

FfiInit == TsmInit /\ vpn = VpnIdle /\ mx = MxIdle /\ wg = WgIdle /\ RestIdle

\* the steps of a stopVPN that was called
StopSteps == StopNotifyWaiters \/ StopNotified \/ StopReset

\* the task run_vpn spawned
RunVpnTask == WaitForShutdownSpawn \/ WaitForShutdownExit \/ RunVpnNotifyOne

\* the task wait_for_shutdown spawned
StopTask == StopTaskNotified \/ StopTaskSend

\* the VPN task as long as run_and_listen does not fail
NymVpnTask == NymVpnListens \/ NymVpnStopped

FfiNext == startVPN \/ stopVPN \/ StopSteps \/ RunVpnTask \/ StopTask \/ NymVpnTask \/ NymVpnFailed

FfiSpec == FfiInit /\ [][FfiNext]_vars

\* The runtime schedules every spawned task, block_on drives stopVPN, and
\* the VPN task takes a Stop message that was sent; nothing makes the
\* caller call stopVPN or the VPN fail.
FfiFairSpec ==
    /\ FfiSpec
    /\ WF_vars(StopSteps) /\ WF_vars(RunVpnTask) /\ WF_vars(StopTask)
    /\ WF_vars(NymVpnTask)

SelectorInit ==
    /\ TsmInit /\ vpn = VpnIdle /\ mx = MxIdle /\ wg = WgIdle
    /\ failure = FailureIdle /\ storage = StorageIdle /\ ffi = FfiStarted
    /\ platform = PlatformIdle /\ wggo = WgGoIdle
    /\ \E tunnel_type \in TunnelType, gateways \in SUBSET Gateways,
          entry_point \in Points, exit_point \in Points :
            selector = [SelectorIdle EXCEPT !.pc = "called", !.tunnel_type = tunnel_type,
                                           !.gateways = gateways,
                                           !.entry_point = entry_point,
                                           !.exit_point = exit_point]

SelectorNext == SelectGateways

\* calls of the gateway selection
SelectorSpec == SelectorInit /\ [][SelectorNext]_vars

ClassifyInit == TsmInit /\ vpn = VpnIdle /\ mx = MxIdle /\ wg = WgIdle /\ RestIdle

ClassifyNext == StepFails \/ ClassifyError

\* failures of handler steps and their classification
ClassifySpec == ClassifyInit /\ [][ClassifyNext]_vars

PlatformInit == TsmInit /\ vpn = VpnIdle /\ mx = MxIdle /\ wg = WgIdle /\ RestIdle

\* the threads that call startVPN and stopVPN
PlatformCalls ==
    \/ configureLib
    \/ \E t \in Threads : start_vpn_inner(t) \/ stop_vpn_inner(t)

\* the calls under way, as block_on drives them
PlatformSteps ==
    \E t \in Threads :
        StartLock(t) \/ StartLocked(t) \/ JoinStateMachine(t) \/ JoinEventBroadcaster(t)

\* the tasks spawned by start_state_machine
PlatformTasks ==
    \E r \in 1..Len(platform.runs) :
        \/ StateMachineSendsEvent(r) \/ StateMachineExits(r)
        \/ BroadcasterOnEvent(r) \/ BroadcasterEnds(r)

PlatformNext == PlatformCalls \/ PlatformSteps \/ PlatformTasks

\* startVPN and stopVPN of the state machine FFI
PlatformSpec == PlatformInit /\ [][PlatformNext]_vars

WgGoInit == TsmInit /\ vpn = VpnIdle /\ mx = MxIdle /\ wg = WgIdle /\ RestIdle

WgGoNext == TunnelStart \/ TunnelStop \/ TunnelDrop

\* the tunnels of nym-wg-go
WgGoSpec == WgGoInit /\ [][WgGoNext]_vars

(***************************************************************************)
(* Properties of the tunnel state machine.                                 *)
(***************************************************************************)
RECURSIVE Transitions(_)
\* the states of the NewState results among the handler results rs, in order
Transitions(rs) ==
    IF rs = <<>> THEN <<>>
    ELSE (IF Head(rs)[1] = "NewState" THEN <<Head(rs)[2]>> ELSE <<>>) \o Transitions(Tail(rs))

\* the handler results run() has matched so far
Matched == IF loop_pc = "match" THEN SubSeq(returned, 1, Len(returned) - 1) ELSE returned

\* C1: the events sent are exactly the states of the NewState results the
\* loop has matched, in the order the handlers returned them: one event per
\* NewState, none for SameState or Finished; and the state of the installed
\* handler is the one of the last event.
C1_EventsFollowTransitions ==
    /\ sent = Transitions(Matched)
    /\ current_state = IF sent = <<>> THEN <<"Disconnected">> ELSE sent[Len(sent)]

\* C1 witness: three transitions were reported and a SameState result was
\* matched in between.
C1_Witness ==
    /\ Len(sent) >= 3
    /\ \E i \in 1..Len(Matched) : Matched[i] = SameState /\ i < Len(Matched)

DisconnectPending == \E i \in 1..Len(command_rx) : command_rx[i] = <<"Disconnect">>

AtRest == current_state[1] \in {"Disconnected", "Error"}

C3_StopIsLast ==
    /\ [](route_stop_calls = IF loop_pc = "done" THEN 1 ELSE 0)
    /\ [][route_stop_calls > 0 =>
            /\ returned' = returned
            /\ current_state' = current_state
            /\ sent' = sent
            /\ route_stop_calls' = route_stop_calls]_vars

\* C3 witness: the loop terminated while a state other than Disconnected was
\* active, and stop was called.
C3_Witness ==
    /\ loop_pc = "done"
    /\ route_stop_calls = 1
    /\ current_state[1] = "Connected"

C5_CancellationWinsTies ==
    [][(/\ loop_pc = "handle"
        /\ current_state = <<"Disconnected">>
        /\ shutdown_token
        /\ command_rx # <<>>
        /\ loop_pc' = "match")
        => (/\ next_state' = Finished
            /\ command_rx' = command_rx
            /\ tunnel_settings' = tunnel_settings)]_vars

\* C20: the handler of Disconnected answers a Connect with
\* NewState(Connecting) and sends nothing itself; run() then installs
\* Connecting and sends exactly one event, Connecting; and whenever the
\* state leaves Disconnected, the next state is Connecting.
C20_DisconnectedConnectGivesConnecting ==
    /\ [][(/\ loop_pc = "handle"
            /\ current_state = <<"Disconnected">>
            /\ command_rx # <<>>
            /\ command_rx' = Tail(command_rx)
            /\ Head(command_rx) = <<"Connect">>)
              => /\ next_state' = <<"NewState", <<"Connecting">>>>
                 /\ sent' = sent
                 /\ loop_pc' = "match"]_vars
    /\ [][(/\ loop_pc = "match"
            /\ loop_pc' # "match"
            /\ current_state = <<"Disconnected">>
            /\ next_state[1] = "NewState")
              => /\ current_state' = <<"Connecting">>
                 /\ sent' = Append(sent, <<"Connecting">>)]_vars
    /\ [][(current_state = <<"Disconnected">> /\ current_state' # current_state)
              => /\ current_state' = <<"Connecting">>
                 /\ Len(sent') = Len(sent) + 1]_vars

\* C20 witness: the first state change of the machine was reported; it
\* followed a Connect taken in Disconnected after a Disconnect was ignored.
C20_Witness ==
    /\ loop_pc = "handle"
    /\ current_state = <<"Connecting">>
    /\ sent = <<(<<"Connecting">>)>>
    /\ returned = <<SameState, <<"NewState", <<"Connecting">>>>>>

\* C21: in Disconnected a Disconnect command changes nothing: the handler
\* takes it from the queue and returns SameState, leaving the tunnel
\* settings and the applied resources as they were and sending nothing; and
\* run(), matching that result, keeps the state Disconnected, sends no event
\* and calls the handler again.
C21_DisconnectedDisconnectIsNoOp ==
    /\ [][(/\ loop_pc = "handle"
            /\ current_state = <<"Disconnected">>
            /\ command_rx # <<>>
            /\ Head(command_rx) = <<"Disconnect">>
            /\ loop_pc' = "match"
            /\ next_state' # <<"Finished">>)
              => /\ next_state' = <<"SameState">>
                 /\ command_rx' = Tail(command_rx)
                 /\ current_state' = current_state
                 /\ tunnel_settings' = tunnel_settings
                 /\ applied' = applied
                 /\ sent' = sent]_vars
    /\ [][(/\ loop_pc = "match"
            /\ loop_pc' # "match"
            /\ current_state = <<"Disconnected">>
            /\ next_state = <<"SameState">>)
              => /\ current_state' = <<"Disconnected">>
                 /\ tunnel_settings' = tunnel_settings
                 /\ applied' = applied
                 /\ sent' = sent
                 /\ loop_pc' = "handle"]_vars

\* C21 witness: the only command sent was a Disconnect; it was taken in
\* Disconnected and matched, and the machine is as it was at construction.
C21_Witness ==
    /\ returned = <<(<<"SameState">>)>>
    /\ n_commands = 1
    /\ command_rx = <<>>
    /\ tunnel_settings = 0
    /\ loop_pc = "handle"
    /\ current_state = <<"Disconnected">>
    /\ sent = <<>>

\* C22: the command queue changes only by a sender appending one command
\* at its end, which leaves the loop alone, or by a handler taking the
\* oldest command; a handler takes one command per call and returns to
\* run(); in Disconnected the result and the settings update are those of
\* the command taken; and a handler is only called once the result of the
\* call before it is installed.  So no command is skipped, none is taken
\* twice, and the effect of a command is applied before the next is taken.
C22_CommandsProcessedInOrder ==
    /\ [][command_rx' # command_rx =>
            \/ /\ \E c \in TunnelCommand : command_rx' = Append(command_rx, c)
               /\ UNCHANGED <<loop_pc, next_state, returned, current_state, tunnel_settings>>
            \/ /\ command_rx # <<>>
               /\ command_rx' = Tail(command_rx)
               /\ loop_pc = "handle"
               /\ loop_pc' = "match"
               /\ Len(returned') = Len(returned) + 1
               /\ current_state = <<"Disconnected">> =>
                    /\ next_state' = IF Head(command_rx) = <<"Connect">>
                                        THEN <<"NewState", <<"Connecting">>>>
                                        ELSE <<"SameState">>
                    /\ tunnel_settings' = IF Head(command_rx)[1] = "SetTunnelSettings"
                                             THEN Head(command_rx)[2]
                                             ELSE tunnel_settings]_vars
    /\ [](loop_pc = "handle" /\ returned # <<>> /\ returned[Len(returned)][1] = "NewState"
            => current_state = returned[Len(returned)][2])

\* C22 witness: SetTunnelSettings was sent before Connect while the machine
\* was Disconnected; the settings were installed by the first call of the
\* handler and Connecting was entered by the second.
C22_Witness ==
    /\ n_commands = 2
    /\ command_rx = <<>>
    /\ returned = <<(<<"SameState">>), <<"NewState", <<"Connecting">>>>>>
    /\ tunnel_settings = 1
    /\ current_state = <<"Connecting">>
    /\ loop_pc = "handle"

\* C23: while the state is Disconnecting its after_disconnect does not
\* change, whatever is sent meanwhile; the handler of Disconnecting that
\* completes its cleanup returns the state its after_disconnect names, and
\* the state that follows Disconnecting is that one: Disconnected after
\* Nothing, Connecting after Reconnect, Error(reason) after Error(reason).
C23_AfterDisconnectDecidesAlone ==
    /\ [][(current_state[1] = "Disconnecting" /\ current_state'[1] = "Disconnecting")
              => current_state' = current_state]_vars
    /\ [][(/\ current_state[1] = "Disconnecting"
            /\ loop_pc = "handle"
            /\ loop_pc' = "match"
            /\ next_state' # <<"Finished">>)
              => next_state' =
                   <<"NewState",
                     IF current_state[2] = <<"Nothing">> THEN <<"Disconnected">>
                     ELSE IF current_state[2] = <<"Reconnect">> THEN <<"Connecting">>
                     ELSE <<"Error", current_state[2][2]>> >>]_vars
    /\ [][(current_state[1] = "Disconnecting" /\ current_state' # current_state)
              => current_state' =
                     IF current_state[2] = <<"Nothing">> THEN <<"Disconnected">>
                     ELSE IF current_state[2] = <<"Reconnect">> THEN <<"Connecting">>
                     ELSE <<"Error", current_state[2][2]>>]_vars

\* C23 witness: the cleanup of Disconnecting{Reconnect} completed with a
\* Disconnect command waiting in the queue, and the handler returned
\* Connecting.
C23_Witness ==
    /\ current_state = <<"Disconnecting", <<"Reconnect">>>>
    /\ loop_pc = "match"
    /\ next_state = <<"NewState", <<"Connecting">>>>
    /\ \E i \in 1..Len(command_rx) : command_rx[i] = <<"Disconnect">>

\* the state reported before the i-th event, Disconnected at construction
StateBefore(i) == IF i = 1 THEN <<"Disconnected">> ELSE sent[i - 1]

\* the i-th event reports the end of a failed connect attempt
ConnectFailedAt(i) ==
    /\ i > 1
    /\ sent[i - 1] = <<"Connecting">>
    /\ \/ sent[i][1] = "Error"
       \/ sent[i][1] = "Disconnecting" /\ sent[i][2][1] = "Error"

\* C24: Connecting is entered from Disconnected, and then by a handler
\* call that took a Connect command from the queue, or from
\* Disconnecting{Reconnect}, which follows a fault of Connected only; so
\* between the failure of a connect attempt and the next time Connecting
\* is entered, the machine was Disconnected and took a new Connect command.
C24_NoRetryWithoutConnect ==
    /\ [](\A j \in 1..Len(sent) : sent[j] = <<"Connecting">> =>
            \/ StateBefore(j) = <<"Disconnected">>
            \/ /\ j > 2
               /\ sent[j - 1] = <<"Disconnecting", <<"Reconnect">>>>
               /\ sent[j - 2] = <<"Connected">>)
    /\ [](\A i, j \in 1..Len(sent) :
            (ConnectFailedAt(i) /\ i < j /\ sent[j] = <<"Connecting">>)
                => \E k \in i..(j - 1) : sent[k] = <<"Disconnected">>)
    /\ [][(/\ current_state = <<"Disconnected">>
            /\ loop_pc = "handle"
            /\ next_state' = <<"NewState", <<"Connecting">>>>
            /\ loop_pc' = "match")
              => /\ command_rx # <<>>
                 /\ Head(command_rx) = <<"Connect">>
                 /\ command_rx' = Tail(command_rx)]_vars

\* C24 witness: a connect attempt failed into Error, the caller sent
\* Disconnect and then Connect, and only then Connecting was entered again.
C24_Witness ==
    /\ Len(sent) = 5
    /\ sent[1] = <<"Connecting">>
    /\ sent[2][1] = "Error"
    /\ sent[4] = <<"Disconnected">>
    /\ sent[5] = <<"Connecting">>
    /\ n_commands = 3

\* C25: run() matching a NewState result installs the new state and goes
\* back to calling its handler, whether the event receiver is still there
\* or was dropped, and whatever number of events was sent before; the match
\* never waits; and with the receiver dropped the loop leaves only on a
\* Finished result.
C25_EventSendNeverStopsLoop ==
    /\ [][(/\ loop_pc = "match"
            /\ loop_pc' # "match"
            /\ next_state[1] = "NewState")
              => /\ current_state' = next_state[2]
                 /\ loop_pc' = "handle"]_vars
    /\ [][(loop_pc = "match" /\ loop_pc' = "stop") => next_state = <<"Finished">>]_vars
    /\ (loop_pc = "match") ~> (loop_pc # "match")

\* C25 witness: the receiver was dropped, the events of three transitions
\* were sent to nobody or not taken, and the loop is calling the handler of
\* the state it installed last, a command waiting in the queue.
C25_Witness ==
    /\ ~event_rx_open
    /\ Len(sent) >= 3
    /\ loop_pc = "handle"
    /\ current_state = sent[Len(sent)]
    /\ command_rx # <<>>
    /\ ~shutdown_token

(***************************************************************************)
(* Properties of run and run_and_listen.                                   *)
(***************************************************************************)
SetupFailureReturned == vpn.pc = "returned" /\ vpn.setup_failed

C9_ClientDisconnectedBeforeError ==
    vpn.services = "Err" => vpn.mixnet_client = "disconnected"

\* the stages of setup_post_mixnet disconnect the client before the error
\* is returned
PostMixnetFailureDisconnects ==
    (vpn.services = "Err" /\ vpn.failed_at # "self_ping") => vpn.mixnet_client = "disconnected"

(***************************************************************************)
(* Properties of select_gateways and connect_mixnet.                       *)
(***************************************************************************)
ConnectMixnetFailed ==
    /\ mx.pc = "returned"
    /\ mx.fn = "connect_mixnet"
    /\ mx.result \in {"Cancelled", "StartMixnetClientTimeout", "MixnetClient"}

\* C7: when connect_mixnet returns an error after it created its task
\* manager, signal_shutdown was called on the task manager once and
\* wait_for_shutdown has completed; a task manager is left running only by a
\* call that returned a connected client.
C7_TaskManagerShutDownBeforeError ==
    /\ ConnectMixnetFailed => mx.signal_calls = 1 /\ mx.task_manager = "finished"
    /\ (mx.pc = "returned" /\ mx.task_manager \in {"running", "signalled"})
          => mx.result = "Ok"

\* C7 witness: a connect_mixnet cancelled during the client startup returned
\* after the shutdown of its task manager, whose signal had failed.
C7_Witness ==
    /\ ConnectMixnetFailed
    /\ mx.result = "Cancelled"
    /\ mx.cancel_phase = "connect_wait"
    /\ mx.signal_failed
    /\ mx.task_manager = "finished"

ProtocolFailures == {"SelectGateways", "StartMixnetClientTimeout", "MixnetClient"}

\* a cancellation issued during the gateway selection or the client startup
\* makes the function return Error::Cancelled
CancelledIsReturned ==
    (/\ mx.pc \in {"returned", "classified"}
     /\ mx.cancel_phase \in {"select_new", "select_wait", "connect_new", "connect_wait"})
        => /\ mx.result \in {"Cancelled", "CreateGatewayClient"}
           /\ mx.cancel_phase \in {"select_wait", "connect_wait"} => mx.result = "Cancelled"

Sends(msg) == Cardinality({i \in DOMAIN wg.transmissions : wg.transmissions[i] = msg})

OutcomesOf(variant) == SelectSeq(wg.outcomes, LAMBDA o : o.msg[1] = variant)

Timeout == "TimeoutWaitingForConnectResponse"

\* C11: a wasteful message in send goes out only while the time spent in the
\* loop is under RETRY_PERIOD, and again only after a timeout; when send
\* returns, a success returns Ok, any other error has ended the loop at once
\* as NoRetry with that error as source, and a run of timeouts ends as
\* NoRetry(timeout) once the budget is spent.
C11_WastefulRetriedOnTimeoutWithinBudget ==
    LET s == OutcomesOf("Final")
    IN  /\ \A i \in DOMAIN s : s[i].before < RETRY_PERIOD
        /\ \A i \in DOMAIN s : i < Len(s) => s[i].outcome = Timeout
        /\ (wg.pc = "after_send" /\ wg.msg[1] = "Final") =>
              /\ Len(s) >= 1
              /\ wg.result = CASE s[Len(s)].outcome = "Ok" -> <<"Ok">>
                               [] s[Len(s)].outcome = Timeout -> <<"Err", "NoRetry", Timeout>>
                               [] OTHER -> <<"Err", "NoRetry", s[Len(s)].outcome>>
              /\ s[Len(s)].outcome = Timeout => wg.elapsed >= RETRY_PERIOD

\* C11 witness: send has returned NoRetry for a Final message that timed out
\* twice and then met another error.
C11_Witness ==
    /\ wg.pc = "after_send"
    /\ Len(OutcomesOf("Final")) = 3
    /\ OutcomesOf("Final")[2].outcome = Timeout
    /\ wg.result = <<"Err", "NoRetry", "Other">>

\* every transmission of the variant in the current call timed out
AllTimedOut(variant) ==
    /\ OutcomesOf(variant) # <<>>
    /\ \A i \in DOMAIN OutcomesOf(variant) : OutcomesOf(variant)[i].outcome = Timeout

\* C12: a register_wireguard whose Initial, or whose Final, timed out at
\* every transmission has retried it until RETRY_PERIOD was spent and
\* returns NoRetry, not the timeout of the authenticator client.
C12_RegistrationTimeoutEndsInNoRetry ==
    (/\ wg.fn = "register_wireguard"
     /\ wg.pc = "returned"
     /\ AllTimedOut("Initial") \/ AllTimedOut("Final"))
        => /\ wg.result = <<"Err", "NoRetry", Timeout>>
           /\ wg.elapsed >= RETRY_PERIOD

\* the Final half of C12
FinalTimeoutEndsInNoRetry ==
    (wg.fn = "register_wireguard" /\ wg.pc = "returned" /\ AllTimedOut("Final"))
        => /\ wg.result = <<"Err", "NoRetry", Timeout>>
           /\ wg.elapsed >= RETRY_PERIOD

\* C13: a message that is not wasteful goes out once in its call, and an
\* error of that transmission, a timeout included, is what the call returns.
C13_NonWastefulSentOnce ==
    \A variant \in {"Query", "TopUp"} :
        LET s == OutcomesOf(variant)
        IN  /\ ~is_wasteful(<<variant, 0>>)
            /\ Len(s) <= 1
            /\ (wg.pc = "returned" /\ wg.msg[1] = variant) =>
                  /\ Len(s) = 1
                  /\ s[1].outcome # "Ok" =>
                        wg.result = <<"Err", "AuthenticatorClient", s[1].outcome>>

\* C13 witness: a query_bandwidth whose Query timed out has returned.
C13_Witness ==
    /\ wg.pc = "returned"
    /\ wg.fn = "query_bandwidth"
    /\ AllTimedOut("Query")
    /\ Sends(<<"Query", 0>>) = wg.calls

\* C14: the Final message that carries a prepared credential is handed to
\* the authenticator at most once.
C14_CredentialOfFinalSentAtMostOnce ==
    \A c \in 1..MaxCalls : Sends(<<"Final", c>>) <= 1

\* the registered data reached register_wireguard, by either reply shape
Registered ==
    /\ wg.fn = "register_wireguard"
    /\ wg.pc = "returned"
    /\ wg.registered_data \in RegisteredReplies

\* C15: with the registered data received, after PendingRegistration and
\* Final or at once, register_wireguard succeeds with the GatewayData made
\* of the registered data's key, of gateway_host and the registered port,
\* and of the private addresses.
C15_BothShapesSucceed ==
    Registered =>
        wg.result = <<"Ok", [public_key |-> wg.registered_data.pub_key,
                             endpoint |-> [ip |-> wg.gateway_host,
                                           port |-> wg.registered_data.wg_port],
                             private_ipv4 |-> <<wg.registered_data.private_ips, "ipv4">>,
                             private_ipv6 |-> <<wg.registered_data.private_ips, "ipv6">>]>>

\* the result of register_wireguard does not depend on the reply shape, and
\* for an IPv4 host it is the GatewayData
ShapeIsNotObservable ==
    Registered =>
        /\ wg.result = GatewayDataOf(wg.gateway_host, wg.registered_data)
        /\ wg.gateway_host = "V4" => wg.result[1] = "Ok"

\* C16: after a failed verification register_wireguard has returned
\* VerificationFailed, the bandwidth controller was not called, and the only
\* transmission of the call is the one Initial that was answered.
C16_VerificationFailureIsFatal ==
    wg.verified = "failed" =>
        /\ wg.pc = "returned"
        /\ wg.result = <<"Err", "VerificationFailed">>
        /\ wg.controller_calls = 0
        /\ wg.tickets = 0
        /\ Len(wg.outcomes) = 1
        /\ wg.outcomes[1].msg = <<"Initial", 0>>

\* C16 witness: the verification failed in credentials mode.
C16_Witness ==
    /\ wg.verified = "failed"
    /\ wg.enable_credentials_mode
    /\ wg.initial_reply = "PendingRegistration"

\* C17: the Final message of a registration carries a credential exactly in
\* credentials mode; then the controller was called once, for one ticket, and
\* the credential is the one it prepared; otherwise the controller was not
\* called.
C17_CredentialIffCredentialsMode ==
    /\ (wg.fn = "register_wireguard" /\ wg.msg[1] = "Final") =>
          /\ wg.msg[2] # 0 <=> wg.enable_credentials_mode
          /\ wg.enable_credentials_mode =>
                /\ wg.controller_calls = 1
                /\ wg.tickets = 1
                /\ wg.msg[2] = wg.credentials
    /\ (wg.fn = "register_wireguard" /\ ~wg.enable_credentials_mode) =>
          wg.controller_calls = 0 /\ wg.tickets = 0

\* C17 witness: registrations in both modes have sent their Final message.
C17_Witness ==
    /\ wg.pc = "returned"
    /\ wg.fn = "register_wireguard"
    /\ ~wg.enable_credentials_mode
    /\ Sends(<<"Final", 0>>) = 1
    /\ Sends(<<"Final", 1>>) = 1

\* C18: query_bandwidth answered by a RemainingBandwidth without payload
\* returns Ok(Some(0)).
C18_EmptyReplyIsSomeZero ==
    (/\ wg.fn = "query_bandwidth"
     /\ wg.pc = "returned"
     /\ wg.response = "RemainingBandwidthNone")
        => wg.result = <<"Ok", <<"Some", 0>>>>

\* C18 witness: query_bandwidth has returned for a reply without payload.
C18_Witness ==
    /\ wg.fn = "query_bandwidth"
    /\ wg.pc = "returned"
    /\ wg.response = "RemainingBandwidthNone"
    /\ wg.result[1] = "Ok"

\* C19: query_bandwidth never returns Ok(None), and an Ok of suspended is
\* Ok(false).
C19_NeverNoneNeverSuspended ==
    /\ (wg.fn = "query_bandwidth" /\ wg.pc = "returned") => wg.result # <<"Ok", <<"None">>>>
    /\ (wg.fn = "suspended" /\ wg.pc = "returned" /\ wg.result[1] = "Ok")
          => wg.result = <<"Ok", FALSE>>

\* C19 witness: suspended has returned Ok for a remaining bandwidth of 0.
C19_Witness ==
    /\ wg.fn = "suspended"
    /\ wg.pc = "returned"
    /\ wg.response = "RemainingBandwidth"
    /\ wg.available_bandwidth = 0
    /\ wg.result[1] = "Ok"

(***************************************************************************)
(* Properties of Error::error_state_reason.                                *)
(***************************************************************************)
\* C26: every value of Error is classified, with one reason that depends on
\* its variant only: failures to create the route handler or to add routes
\* are Routing, failures to create the dns handler or to set dns are Dns,
\* a failure to create the firewall handler is Firewall, failures of the
\* tun device are TunDevice, failures to connect the mixnet client or the
\* mixnet tunnel are EstablishMixnetConnection.
C26_ErrorStateReasonIsAFunctionOfTheVariant ==
    /\ failure.pc = "failed" => ENABLED ClassifyError
    /\ failure.pc = "classified" =>
          /\ failure.reason \in ErrorStateReason
          /\ failure.reason =
                CASE failure.error[1] = "CreateRouteHandler" -> "Routing"
                  [] failure.error[1] = "AddRoutes" -> "Routing"
                  [] failure.error[1] = "CreateDnsHandler" -> "Dns"
                  [] failure.error[1] = "SetDns" -> "Dns"
                  [] failure.error[1] = "CreateFirewallHandler" -> "Firewall"
                  [] failure.error[1] = "CreateTunDevice" -> "TunDevice"
                  [] failure.error[1] = "GetTunDeviceName" -> "TunDevice"
                  [] failure.error[1] = "SetTunDeviceIpv6Addr" -> "TunDevice"
                  [] failure.error[1] = "ConnectMixnetClient" -> "EstablishMixnetConnection"
                  [] failure.error[1] = "ConnectMixnetTunnel" -> "EstablishMixnetConnection"

\* C26 witness: a failure to set dns that wraps the last of the source
\* errors was classified as Dns.
C26_Witness ==
    /\ failure.pc = "classified"
    /\ failure.error = <<"SetDns", MaxSources>>
    /\ failure.reason = "Dns"

(***************************************************************************)
(* Properties of OnDiskMnemonicStorage.                                    *)
(***************************************************************************)
\* the i-th call was a store_mnemonic on a path where nothing was stored
StoredOnFreePath(i) ==
    /\ storage.calls[i].op = "store"
    /\ ~storage.calls[i].existed

\* the call after the i-th, if it is a load_mnemonic, returned the mnemonic
\* the i-th call was given
LoadAfterReturnsIt(i) ==
    (i < Len(storage.calls) /\ storage.calls[i + 1].op = "load")
        => storage.calls[i + 1].result = [tag |-> "Ok", value |-> storage.calls[i].mnemonic]

\* C28: every store_mnemonic(m) on a path where nothing is stored returns
\* Ok, and a load_mnemonic that follows it returns Ok(m).
C28_StoreThenLoadReturnsStored ==
    \A i \in 1..Len(storage.calls) :
        StoredOnFreePath(i) =>
            /\ storage.calls[i].result.tag = "Ok"
            /\ LoadAfterReturnsIt(i)

\* What holds of store_mnemonic and load_mnemonic: in a directory that is
\* there and is the caller's, store_mnemonic(m) on a path where nothing is
\* stored returns Ok and a load_mnemonic that follows returns Ok(m); and
\* whatever the directory, a store_mnemonic(m) that returned Ok is followed
\* by a load_mnemonic that returns Ok(m).
StoreThenLoadInOwnDirectory ==
    \A i \in 1..Len(storage.calls) :
        /\ (StoredOnFreePath(i) /\ storage.parent = "owned")
              => storage.calls[i].result.tag = "Ok"
        /\ (storage.calls[i].op = "store" /\ storage.calls[i].result.tag = "Ok")
              => LoadAfterReturnsIt(i)

\* the file at self.path holds a stored mnemonic
HoldsMnemonic == storage.exists /\ from_reader(storage.content).ok

\* C29: store_mnemonic on a path that exists returns MnemonicAlreadyStored;
\* a file that holds a stored mnemonic keeps its content in every step
\* but a remove_mnemonic that returns Ok, which deletes it; and a
\* load_mnemonic with no successful remove_mnemonic since the store_mnemonic
\* that returned Ok returns the mnemonic of that store.
C29_StoredMnemonicOnlyReplacedAfterRemove ==
    /\ [](\A i \in 1..Len(storage.calls) :
            (storage.calls[i].op = "store" /\ storage.calls[i].existed)
                => storage.calls[i].result.tag = "MnemonicAlreadyStored")
    /\ [][HoldsMnemonic =>
            \/ storage'.exists /\ storage'.content = storage.content
            \/ /\ ~storage'.exists
               /\ storage'.calls[Len(storage'.calls)].op = "remove"
               /\ storage'.calls[Len(storage'.calls)].result.tag = "Ok"]_vars
    /\ [](\A i, j \in 1..Len(storage.calls) :
            (/\ i < j
             /\ storage.calls[i].op = "store" /\ storage.calls[i].result.tag = "Ok"
             /\ storage.calls[j].op = "load"
             /\ \A k \in (i + 1)..(j - 1) : storage.calls[k].op # "remove")
                => storage.calls[j].result =
                       [tag |-> "Ok", value |-> storage.calls[i].mnemonic])

\* C29 witness: a mnemonic was stored, the store of another mnemonic was
\* refused with MnemonicAlreadyStored, and the load after it returned the
\* first.
C29_Witness ==
    /\ Len(storage.calls) = 3
    /\ storage.calls[1].op = "store" /\ storage.calls[1].result.tag = "Ok"
    /\ storage.calls[2].op = "store"
    /\ storage.calls[2].mnemonic # storage.calls[1].mnemonic
    /\ storage.calls[2].result.tag = "MnemonicAlreadyStored"
    /\ storage.calls[3].op = "load"
    /\ storage.calls[3].result = [tag |-> "Ok", value |-> storage.calls[1].mnemonic]

(***************************************************************************)
(* Properties of the legacy FFI layer.                                     *)
(***************************************************************************)
\* C30: after a successful startVPN, every stopVPN that was called
\* eventually returns.
C30_StopVpnReturns == (ffi.stop \notin {"idle", "returned"}) ~> (ffi.stop = "returned")

(***************************************************************************)
(* Properties of the gateway selection.                                    *)
(***************************************************************************)
\* the gateways of country c that pass the filters of the call
CandidatesOf(c) ==
    {g \in selector.gateways :
        /\ g.country = c
        /\ g.performance >= 50
        /\ IF selector.tunnel_type = "Mixnet" THEN g.ipr ELSE g.authenticator}

\* the same country is requested for entry and for exit, and exactly one
\* gateway of that country is a candidate
OneGatewayOfRequestedCountry ==
    /\ selector.entry_point[1] = "Location"
    /\ selector.exit_point = selector.entry_point
    /\ Cardinality(CandidatesOf(selector.entry_point[2])) = 1

\* C27: a selection with the same country requested for entry and for
\* exit, and exactly one candidate of that country, returns the error
\* 'same entry and exit gateway'; and no selection with a country requested
\* for both returns a pair whose entry and exit are the same gateway.
C27_OneGatewayOfCountryIsRejected ==
    selector.pc = "returned" =>
        /\ OneGatewayOfRequestedCountry
              => selector.result.tag = "SameEntryAndExitGatewayFromCountry"
        /\ (/\ selector.result.tag = "Ok"
            /\ selector.entry_point[1] = "Location"
            /\ selector.exit_point[1] = "Location")
              => selector.result.entry # selector.result.exit

\* C27 witness: a mixnet selection with CH requested for both, in a
\* directory that lists three gateways of CH of which only g1 passes the
\* filters, was rejected.
C27_Witness ==
    /\ selector.pc = "returned"
    /\ selector.tunnel_type = "Mixnet"
    /\ selector.entry_point = <<"Location", "CH">>
    /\ selector.exit_point = <<"Location", "CH">>
    /\ Cardinality({g \in selector.gateways : g.country = "CH"}) = 3
    /\ selector.result.tag = "SameEntryAndExitGatewayFromCountry"

(***************************************************************************)
(* Properties of DisconnectedState on SetTunnelSettings and on a closed    *)
(* command channel.                                                        *)
(***************************************************************************)
\* the call of DisconnectedState's handler that takes the command c
DisconnectedTakes(c) ==
    /\ loop_pc = "handle"
    /\ current_state = <<"Disconnected">>
    /\ command_rx # <<>>
    /\ Head(command_rx) = c
    /\ command_rx' = Tail(command_rx)

\* C38: in Disconnected, SetTunnelSettings(s) makes s the tunnel settings
\* and changes nothing else: the handler returns SameState, the applied
\* handlers and the events sent stay as they are, and installing SameState
\* keeps the state, the settings, the handlers and the events.  The
\* settings change in no other step, and Connect taken in Disconnected
\* returns Connecting with the settings untouched: Connecting is entered
\* with the settings of the last SetTunnelSettings processed before it.
C38_SetTunnelSettingsOnlyReplacesSettings ==
    /\ [][\A s \in Settings : DisconnectedTakes(<<"SetTunnelSettings", s>>) =>
            /\ tunnel_settings' = s
            /\ next_state' = <<"SameState">>
            /\ loop_pc' = "match"
            /\ UNCHANGED <<current_state, applied, sent, route_stop_calls>>]_vars
    /\ [][loop_pc = "match" /\ next_state = <<"SameState">> /\ loop_pc' # "match" =>
            /\ loop_pc' = "handle"
            /\ UNCHANGED <<current_state, tunnel_settings, applied, sent,
                           route_stop_calls>>]_vars
    /\ [][tunnel_settings' # tunnel_settings =>
            DisconnectedTakes(<<"SetTunnelSettings", tunnel_settings'>>)]_vars
    /\ [][DisconnectedTakes(<<"Connect">>) =>
            /\ next_state' = <<"NewState", <<"Connecting">>>>
            /\ UNCHANGED tunnel_settings]_vars

\* C38 witness: SetTunnelSettings(1) was taken in Disconnected and made 1
\* the settings without an event or a change of state; SetTunnelSettings(0)
\* and Connect are queued behind it.
C38_Witness ==
    /\ current_state = <<"Disconnected">>
    /\ returned = <<(<<"SameState">>)>>
    /\ tunnel_settings = 1
    /\ command_rx = <<(<<"SetTunnelSettings", 0>>), (<<"Connect">>)>>
    /\ sent = <<>>
    /\ loop_pc = "handle"

\* the command channel is closed and empty while DisconnectedState's handler
\* waits and the shutdown token is not cancelled
ClosedChannelInDisconnected ==
    /\ loop_pc = "handle"
    /\ current_state = <<"Disconnected">>
    /\ ~command_tx_open
    /\ command_rx = <<>>
    /\ ~shutdown_token

\* C39: in Disconnected, once every command sender is dropped and the queue
\* is empty, with the shutdown token not cancelled, the handler returns
\* Finished and the loop terminates after stopping the route handler.
C39_ClosedChannelLeadsToExit ==
    ClosedChannelInDisconnected ~> (loop_pc = "done" /\ route_stop_calls = 1)

(***************************************************************************)
(* Properties of the return paths of run and run_and_listen.               *)
(***************************************************************************)
\* run or run_and_listen has returned after init_firewall_dns succeeded
ReturnedAfterInit ==
    /\ vpn.pc = "returned"
    /\ vpn.result \notin {"Err(RouteManager)", "Err(FirewallDns)"}

\* C35: on every return of run and run_and_listen after the firewall and
\* the DNS monitor were initialised, the DNS reset and the firewall policy
\* reset have both been called, also when the DNS reset failed.
C35_BothResetsAttemptedBeforeReturn ==
    ReturnedAfterInit => vpn.reset_calls.dns >= 1 /\ vpn.reset_calls.firewall >= 1

\* the DNS reset is attempted on every such return, and the setup failure
\* path attempts both resets even when the DNS reset fails
DnsResetAttemptedBeforeReturn ==
    /\ ReturnedAfterInit => vpn.reset_calls.dns = 1
    /\ (ReturnedAfterInit /\ vpn.setup_failed) => vpn.reset_calls.firewall = 1

(***************************************************************************)
(* Properties of the replies register_wireguard accepts.                   *)
(***************************************************************************)
RegisterReturned == wg.pc = "returned" /\ wg.fn = "register_wireguard"

\* the transmissions of the call that were answered with a reply
Replied == {i \in 1..Len(wg.outcomes) : wg.outcomes[i].outcome = "Ok"}

\* C36: register_wireguard returns GatewayData only when the last reply it
\* received was Registered.  A reply to Initial other than
\* PendingRegistration and Registered makes it fail with
\* InvalidGatewayAuthResponse with Initial as its only transmission; a reply
\* to Final other than Registered makes it fail with
\* InvalidGatewayAuthResponse, and the Final that was answered is the last
\* transmission of the call.
C36_GatewayDataOnlyAfterRegistered ==
    /\ (RegisterReturned /\ wg.result[1] = "Ok") =>
          /\ Replied # {}
          /\ Len(wg.outcomes) \in Replied
          /\ wg.response = "Registered"
    /\ (RegisterReturned /\ wg.initial_reply
                                \notin {"none", "PendingRegistration", "Registered"}) =>
          /\ wg.result = <<"Err", "InvalidGatewayAuthResponse">>
          /\ Len(wg.outcomes) = 1
          /\ wg.outcomes[1].msg = <<"Initial", 0>>
    /\ wg.fn = "register_wireguard" =>
          \A i \in Replied : wg.outcomes[i].msg[1] = "Final" => i = Len(wg.outcomes)
    /\ (/\ RegisterReturned
        /\ Len(wg.outcomes) \in Replied
        /\ wg.outcomes[Len(wg.outcomes)].msg[1] = "Final"
        /\ wg.response # "Registered") =>
          wg.result = <<"Err", "InvalidGatewayAuthResponse">>

\* C36 witness: Initial was answered with PendingRegistration, the first
\* Final timed out, the second was answered with a reply that is not
\* Registered, and the call failed with InvalidGatewayAuthResponse.
C36_Witness ==
    /\ RegisterReturned
    /\ wg.initial_reply = "PendingRegistration"
    /\ Len(wg.outcomes) = 3
    /\ wg.outcomes[2].outcome = "TimeoutWaitingForConnectResponse"
    /\ wg.outcomes[3].msg[1] = "Final"
    /\ wg.outcomes[3].outcome = "Ok"
    /\ wg.response = "TopUpBandwidth"
    /\ wg.result = <<"Err", "InvalidGatewayAuthResponse">>

\* C37: in register_wireguard the bandwidth controller is called at most
\* once, and only in credentials mode on the PendingRegistration branch
\* after the gateway data verified; when the gateway answers Initial with
\* Registered, the controller is not called and no ticket is spent.
C37_TicketOnlyAfterVerifiedPendingRegistration ==
    wg.fn = "register_wireguard" =>
        /\ wg.controller_calls <= 1
        /\ wg.tickets <= wg.controller_calls * TICKETS_TO_SPEND
        /\ wg.controller_calls > 0 =>
              /\ wg.enable_credentials_mode
              /\ wg.initial_reply = "PendingRegistration"
              /\ wg.verified = "ok"
        /\ wg.initial_reply = "Registered" =>
              wg.controller_calls = 0 /\ wg.tickets = 0

\* C37 witness: with credentials mode enabled the gateway answered Initial
\* with Registered, and the call returned GatewayData with the controller
\* never called.
C37_Witness ==
    /\ RegisterReturned
    /\ wg.enable_credentials_mode
    /\ wg.initial_reply = "Registered"
    /\ wg.result[1] = "Ok"
    /\ wg.controller_calls = 0
    /\ wg.tickets = 0

\* with credentials mode enabled a verified PendingRegistration does reach
\* the controller
TicketRequestedAfterVerification ==
    /\ RegisterReturned
    /\ wg.enable_credentials_mode
    /\ wg.verified = "ok"
    /\ wg.controller_calls = 1
    /\ wg.tickets = 1

(***************************************************************************)
(* Properties of RUNNING and VPN_SHUTDOWN_HANDLE of the legacy FFI.        *)
(***************************************************************************)
\* C34: whenever no startVPN and no stopVPN is under way, RUNNING is set
\* exactly when VPN_SHUTDOWN_HANDLE holds a handle; after the VPN task
\* exited with a failure both are cleared, and the startVPN that follows is
\* rejected neither with VpnAlreadyRunning nor with VpnNotStopped.
C34_RunningIffHandleHeld ==
    ffi.stop \in {"idle", "returned"} =>
        /\ ffi.running <=> ffi.handle
        /\ (ffi.nym_vpn = "Failed" /\ ffi.wait_task = "done" /\ ffi.starts > 0) =>
              ffi.start_result \notin {"VpnAlreadyRunning", "VpnNotStopped"}

\* the startVPN after the rejected one finds both cleared and starts the VPN
StartedAfterRejectedStart ==
    /\ ffi.starts = 2
    /\ ffi.start_result = "Ok"
    /\ ffi.stops = 0
    /\ ffi.running /\ ffi.handle
    /\ ffi.nym_vpn = "setup"

(***************************************************************************)
(* Properties of startVPN and stopVPN of the state machine FFI.            *)
(***************************************************************************)
\* the state machine tasks that have not terminated
LiveStateMachines ==
    {r \in 1..Len(platform.runs) : platform.runs[r].state_machine = "running"}

\* thread t takes a step of its call that ends the call
Returns(t) == platform.threads[t].pc # "returned" /\ platform'.threads[t].pc = "returned"

\* at most one state machine lives; a state machine is spawned only with no
\* handle stored, and its handle is stored in the same step, under the lock
\* every startVPN takes, so of concurrent calls at most one spawns; stopVPN
\* with no handle stored returns InvalidStateError and changes nothing
\* else; a stopVPN that returns Ok leaves no handle stored
OneStateMachine ==
    /\ [](Cardinality(LiveStateMachines) <= 1)
    /\ [][Len(platform'.runs) # Len(platform.runs) =>
            /\ platform.handle = 0
            /\ Len(platform'.runs) = Len(platform.runs) + 1
            /\ platform'.handle = Len(platform'.runs)
            /\ \E t \in Threads : platform.lock = t /\ Returns(t)
                                     /\ platform'.threads[t].result = "Ok"]_vars
    /\ [][\A t \in Threads :
            (/\ Returns(t)
             /\ platform'.threads[t].fn = "stopVPN"
             /\ platform.threads[t].pc \in {"idle", "returned"}) =>
                /\ platform.handle = 0
                /\ platform'.threads[t].result = "InvalidStateError"
                /\ UNCHANGED <<platform.handle, platform.runs>>]_vars
    /\ [][\A t \in Threads :
            (Returns(t) /\ platform.threads[t].pc = "join_event_broadcaster") =>
                /\ platform'.threads[t].result = "Ok"
                /\ platform'.handle = 0]_vars

\* C31, with the account check that precedes the lock: at most one tunnel
\* state machine lives at a time.  A startVPN that passed the account check
\* and finds a handle stored returns InvalidStateError and spawns nothing;
\* a startVPN whose account check fails returns the error of the check
\* whether a handle is stored or not.  stopVPN with no handle stored
\* returns InvalidStateError; of concurrent startVPN calls at most one
\* spawns; after a stopVPN that returned Ok no handle is stored.
C31_OneStateMachinePerProcess ==
    /\ OneStateMachine
    /\ [][\A t \in Threads :
            (Returns(t) /\ platform.threads[t].pc = "locked" /\ platform.handle # 0) =>
                /\ platform'.threads[t].result = "InvalidStateError"
                /\ UNCHANGED <<platform.handle, platform.runs>>]_vars
    /\ [][\A t \in Threads :
            (Returns(t) /\ platform.threads[t].pc \in {"idle", "returned"}
                /\ platform'.threads[t].fn = "startVPN") =>
                /\ platform'.threads[t].account # "Ready"
                /\ UNCHANGED <<platform.handle, platform.runs>>]_vars

\* C31 witness: a state machine was started and stopped, and a second
\* startVPN spawned a new one whose handle is stored.
C31_Witness ==
    /\ Len(platform.runs) = 2
    /\ platform.runs[1].state_machine = "terminated"
    /\ platform.runs[2].state_machine = "running"
    /\ platform.handle = 2
    /\ \E t \in Threads : platform.threads[t].fn = "startVPN"
                            /\ platform.threads[t].result = "Ok"

\* C31 as stated: every startVPN called and returned while a handle was
\* stored fails with InvalidStateError.
C31_StartWhileStoredIsInvalidState ==
    /\ OneStateMachine
    /\ [](\A t \in Threads :
            (/\ platform.threads[t].pc = "returned"
             /\ platform.threads[t].fn = "startVPN"
             /\ platform.threads[t].stored_at_call # 0
             /\ platform.handle = platform.threads[t].stored_at_call) =>
                platform.threads[t].result = "InvalidStateError")

\* the threads whose stopVPN has returned Ok
StoppedBy == {t \in Threads : /\ platform.threads[t].pc = "returned"
                              /\ platform.threads[t].fn = "stopVPN"
                              /\ platform.threads[t].result = "Ok"}

\* C32: when stopVPN has returned Ok, the shutdown token of the machine it
\* took is cancelled, the state machine task has terminated, the event
\* broadcaster has ended, and the listener was given every event the
\* machine emitted, once each and in the order of emission.
C32_StopReturnsAfterTasksAndEvents ==
    \A t \in StoppedBy :
        LET run == platform.runs[platform.threads[t].stored_at_call]
        IN  /\ run.shutdown_token
            /\ run.state_machine = "terminated"
            /\ run.event_broadcaster = "ended"
            /\ run.event_receiver = <<>>
            /\ run.delivered = run.emitted

\* C32 witness: stopVPN returned Ok for a machine that had emitted two
\* events, both delivered in order.
C32_Witness ==
    \E t \in StoppedBy :
        /\ platform.runs[platform.threads[t].stored_at_call].emitted = <<1, 2>>
        /\ platform.runs[platform.threads[t].stored_at_call].delivered = <<1, 2>>

\* the VpnError startVPN returns for an account that is not ready
AccountErrorOf(account) ==
    CASE account = "NotRunning" -> "InvalidStateError"
      [] account = "None" -> "AccountStatusUnknown"
      [] account = "NoMnemonicStored" -> "NoAccountStored"
      [] account = "AccountNotActive" -> "AccountNotActive"
      [] account = "NoActiveSubscription" -> "NoActiveSubscription"
      [] account = "DeviceNotRegistered" -> "AccountDeviceNotRegistered"
      [] account = "DeviceNotActive" -> "AccountDeviceNotActive"

\* C33: a state machine is spawned only by a startVPN whose account check
\* got Ready, and Connect is then the first command on its command
\* channel; a startVPN whose check got anything else returns the error of
\* that outcome, spawns nothing and leaves the stored handle as it is.
C33_SpawnOnlyWhenAccountReady ==
    /\ [][Len(platform'.runs) > Len(platform.runs) =>
            /\ \E t \in Threads : /\ Returns(t)
                                   /\ platform.threads[t].fn = "startVPN"
                                   /\ platform.threads[t].account = "Ready"
            /\ platform'.runs[Len(platform'.runs)].command_receiver = <<"Connect">>]_vars
    /\ [](\A t \in Threads :
            (/\ platform.threads[t].pc = "returned"
             /\ platform.threads[t].fn = "startVPN"
             /\ platform.threads[t].account # "Ready") =>
                platform.threads[t].result = AccountErrorOf(platform.threads[t].account))
    /\ [][\A t \in Threads :
            (/\ Returns(t)
             /\ platform'.threads[t].fn = "startVPN"
             /\ platform'.threads[t].account # "Ready") =>
                UNCHANGED <<platform.handle, platform.runs>>]_vars

\* C33 witness: with a handle stored, a startVPN whose account has no
\* active subscription returned NoActiveSubscription; the handle and the
\* machine are as they were.
C33_Witness ==
    /\ platform.handle = 1
    /\ Len(platform.runs) = 1
    /\ \E t \in Threads :
          /\ platform.threads[t].pc = "returned"
          /\ platform.threads[t].fn = "startVPN"
          /\ platform.threads[t].account = "NoActiveSubscription"
          /\ platform.threads[t].stored_at_call = 1
          /\ platform.threads[t].result = "NoActiveSubscription"

(***************************************************************************)
(* Properties of the Tunnel of nym-wg-go.                                  *)
(***************************************************************************)
\* the calls of wgTurnOff made for the tunnel of the i-th wgTurnOn
TurnOffsOf(i) == {k \in 1..Len(wggo.turn_off) : wggo.turn_off[k][1] = i}

\* C40: a start that failed with a negative handle is never turned off; a
\* tunnel that is alive has not been turned off; a tunnel that was stopped
\* or dropped was turned off exactly once, with the handle its start
\* returned, stop followed by the drop of the value included.
C40_TurnOffOncePerStartedTunnel ==
    \A i \in 1..Len(wggo.tunnels) :
        LET t == wggo.tunnels[i] IN
        /\ t.wgTurnOn < 0 => t.state = "StartTunnel" /\ TurnOffsOf(i) = {}
        /\ t.state = "alive" => t.handle = t.wgTurnOn /\ TurnOffsOf(i) = {}
        /\ t.state \in {"stopped", "dropped"} =>
              /\ t.wgTurnOn >= 0
              /\ Cardinality(TurnOffsOf(i)) = 1
              /\ \A k \in TurnOffsOf(i) : wggo.turn_off[k][2] = t.wgTurnOn
              /\ t.handle = -1

\* C40 witness: the first start failed with -2, the second returned handle
\* 0 and was stopped, the third returned handle 0 again and was dropped;
\* wgTurnOff was called twice, once for each started tunnel.
C40_Witness ==
    /\ Len(wggo.tunnels) = 3
    /\ wggo.tunnels[1].wgTurnOn = -2
    /\ wggo.tunnels[2].wgTurnOn = 0 /\ wggo.tunnels[2].state = "stopped"
    /\ wggo.tunnels[3].wgTurnOn = 0 /\ wggo.tunnels[3].state = "dropped"
    /\ wggo.turn_off = <<(<<2, 0>>), (<<3, 0>>)>>

====
